---------------------------- MODULE Spec2Model ----------------------------
(***************************************************************************)
(* The classification and aggregation pipeline of analyze_posts.py:        *)
(* rule-based extraction of model / homework / failure modes / outcome     *)
(* from the text of a forum post, and the statistics fold over the         *)
(* enriched posts; and the thread loop of generate_site.py, which runs     *)
(* its own extractors and folds the same kind of statistics.               *)
(*                                                                         *)
(* Texts are TLA+ strings; a character is a string of length 1.  Regular   *)
(* expressions of the source are kept as sequences of atoms and matched    *)
(* by position-set simulation, which decides re.search exactly for the     *)
(* pattern shapes the source uses (literals, classes, X*, X+, optional     *)
(* groups, alternations).                                                  *)
(***************************************************************************)
EXTENDS Integers, Sequences, FiniteSets, TLC

VARIABLES
    pc,                  \* position of the running script / harness
    title,               \* extractor input: the post title
    content,             \* extractor input: the (full) post content
    out,                 \* value returned by the extractor under study
    posts,               \* raw posts loaded from posts_raw.json
    pdf_content_map,     \* post id -> supplementary text
    idx,                 \* number of loop iterations already executed
    enriched_posts,      \* list built by the enrichment loop
    model_stats,         \* defaultdict: model label -> bucket
    hw_stats,            \* defaultdict: homework label -> bucket
    failure_mode_stats,  \* defaultdict: failure-mode id -> bucket
    stats_keys,          \* the keys of the three dicts in insertion order
    summary,             \* analysis_output['summary'] once computed
    error,               \* the exception that ended the script, if any
    threads,             \* generate_site: the threads handed to the generator
    processed_threads,   \* generate_site: list built by the thread loop
    models,              \* generate_site: set of model labels seen
    homeworks,           \* generate_site: set of homework labels seen
    failure_mode_counts, \* generate_site: defaultdict(int) over failure types
    extractions,         \* extract_fast: the list of extracted PDF texts
    files,               \* the file system: path -> stored value
    page,                \* generate_site main: the page counter
    seen_ids,            \* generate_site main: ids already collected
    all_threads,         \* generate_site main: the threads collected so far
    tasks,               \* extract_fast: the download tasks
    worker,              \* extract_fast: position of each task's worker
    counts               \* extract_fast: existing/downloaded/skipped/failed

vars == << pc, title, content, out, posts, pdf_content_map, idx,
           enriched_posts, model_stats, hw_stats, failure_mode_stats,
           stats_keys, summary, error,
           threads, processed_threads, models, homeworks, failure_mode_counts,
           extractions, files, page, seen_ids, all_threads, tasks, worker,
           counts >>

fnVars   == << title, content, out >>
endVars  == << stats_keys, summary, error >>
siteVars == << threads, processed_threads, models, homeworks, failure_mode_counts >>
loadVars == << extractions, files >>
pageVars == << page, seen_ids, all_threads >>
poolVars == << tasks, worker, counts >>
toolVars == << loadVars, pageVars, poolVars >>
pipeVars == << posts, pdf_content_map, idx, enriched_posts,
               model_stats, hw_stats, failure_mode_stats, endVars, siteVars,
               toolVars >>

---------------------------------------------------------------------------
(* Characters and strings *)

CharAt(t, i) == SubSeq(t, i, i)

UpperLetters == "ABCDEFGHIJKLMNOPQRSTUVWXYZ"
LowerLetters == "abcdefghijklmnopqrstuvwxyz"

\* str.lower() on one character (ASCII letters; every other character of the
\* modelled alphabet is its own lower case).
LowerChar(c) ==
    LET hits == {k \in 1..Len(UpperLetters) : CharAt(UpperLetters, k) = c}
    IN  IF hits = {} THEN c ELSE CharAt(LowerLetters, CHOOSE k \in hits : TRUE)

\* str.upper() on one character
UpperChar(c) ==
    LET hits == {k \in 1..Len(LowerLetters) : CharAt(LowerLetters, k) = c}
    IN  IF hits = {} THEN c ELSE CharAt(UpperLetters, CHOOSE k \in hits : TRUE)

RECURSIVE upper(_)
upper(s) ==
    IF Len(s) = 0 THEN ""
    ELSE IF Len(s) = 1 THEN UpperChar(s)
    ELSE upper(SubSeq(s, 1, Len(s) \div 2)) \o upper(SubSeq(s, Len(s) \div 2 + 1, Len(s)))

RECURSIVE lower(_)
lower(s) ==
    IF Len(s) = 0 THEN ""
    ELSE IF Len(s) = 1 THEN LowerChar(s)
    ELSE lower(SubSeq(s, 1, Len(s) \div 2)) \o lower(SubSeq(s, Len(s) \div 2 + 1, Len(s)))

SetMax(S) == CHOOSE x \in S : \A y \in S : y <= x
SetMin(S) == CHOOSE x \in S : \A y \in S : x <= y

\* s occurs in t as a substring (Python: s in t)
Contains(t, s) ==
    \E i \in 1..(Len(t) - Len(s) + 1) : SubSeq(t, i, i + Len(s) - 1) = s

---------------------------------------------------------------------------
(* Regular expressions                                                     *)

\* character classes: a set of characters, or the complement of one
Whitespace == {" ", "\t", "\n", "\r", "\f"}
SpaceClass == [neg |-> FALSE, set |-> Whitespace]                \* \s
SepClass   == [neg |-> FALSE, set |-> Whitespace \cup {"-"}]     \* [\s\-]
HwSepClass == [neg |-> FALSE, set |-> Whitespace \cup {"-", "_"}] \* [\s\-_]
AnyChar    == [neg |-> TRUE,  set |-> {"\n"}]                    \* .
Chr(c)     == [neg |-> FALSE, set |-> {c}]                       \* one literal
Digits     == "0123456789"
DigitSet   == {CharAt(Digits, k) : k \in 1..Len(Digits)}
DigitClass == [neg |-> FALSE, set |-> DigitSet]                  \* \d
CharSet(S) == [neg |-> FALSE, set |-> S]                         \* [...]

InClass(c, cls) == (c \in cls.set) # cls.neg

\* atoms
L(s)      == [k |-> "lit",  s |-> s]       \* literal text
Star(cls) == [k |-> "star", c |-> cls]     \* X*  for a one-character X
Plus(cls) == [k |-> "plus", c |-> cls]     \* X+  for a one-character X
Opt(p)    == [k |-> "opt",  p |-> p]       \* (?: p )?
One(cls)  == [k |-> "one",  c |-> cls]     \* one character of a class
Alt(ps)   == [k |-> "alt",  ps |-> ps]     \* (?: p1 | p2 | ... )

\* all j such that t[i..j-1] lies inside the class: the ends of the longest
\* run of class characters that starts at i, and of every shorter one
Runs(cls, t, i) ==
    LET breaks == {n \in i..Len(t) : ~InClass(CharAt(t, n), cls)}
    IN  i..(IF breaks = {} THEN Len(t) + 1 ELSE SetMin(breaks))

RECURSIVE Ends(_, _, _)
\* Positions a match of atom sequence p can end at (exclusive) when started
\* at any position of P.  The regex engine backtracks over exactly these.
Ends(p, t, P) ==
    IF Len(p) = 0 \/ P = {} THEN P
    ELSE LET a == Head(p)
             Q == CASE a.k = "lit" ->
                         {i + Len(a.s) :
                            i \in {j \in P : /\ j + Len(a.s) - 1 <= Len(t)
                                             /\ SubSeq(t, j, j + Len(a.s) - 1) = a.s}}
                    [] a.k = "star" -> UNION {Runs(a.c, t, i) : i \in P}
                    [] a.k = "plus" -> UNION {Runs(a.c, t, i) \ {i} : i \in P}
                    [] a.k = "opt"  -> P \cup Ends(a.p, t, P)
                    [] a.k = "one"  ->
                         {i + 1 : i \in {j \in P : /\ j <= Len(t)
                                                    /\ InClass(CharAt(t, j), a.c)}}
                    [] a.k = "alt"  ->
                         UNION {Ends(a.ps[n], t, P) : n \in DOMAIN a.ps}
         IN  Ends(Tail(p), t, Q)

\* re.search(p, t) is not None
Search(p, t) == Ends(p, t, 1..(Len(t) + 1)) # {}

RECURSIVE FoldPattern(_)
\* the pattern as re.IGNORECASE reads it: literals compared in lower case
FoldPattern(p) ==
    IF Len(p) = 0 THEN << >>
    ELSE LET a == Head(p)
             b == CASE a.k = "lit"  -> L(lower(a.s))
                    [] a.k = "star" -> a
                    [] a.k = "plus" -> a
                    [] a.k = "opt"  -> Opt(FoldPattern(a.p))
                    [] a.k = "one"  -> a
                    [] a.k = "alt"  ->
                         Alt([n \in DOMAIN a.ps |-> FoldPattern(a.ps[n])])
         IN  << b >> \o FoldPattern(Tail(p))

\* re.search(p, t, re.IGNORECASE) is not None
SearchIgnoreCase(p, t) == Search(FoldPattern(p), lower(t))

RECURSIVE strip(_)
\* str.strip(): leading and trailing whitespace removed
strip(s) ==
    IF Len(s) = 0 THEN s
    ELSE IF CharAt(s, 1) \in Whitespace THEN strip(SubSeq(s, 2, Len(s)))
    ELSE IF CharAt(s, Len(s)) \in Whitespace THEN strip(SubSeq(s, 1, Len(s) - 1))
    ELSE s

---------------------------------------------------------------------------
(* extract_model *)

model_patterns ==
  <<
    << <<L("chatgpt"), Star(SepClass), L("5.1"), Star(SepClass), L("pro")>>, "ChatGPT 5.1 Pro" >>,
    << <<L("chatgpt"), Star(SepClass), L("5.1"), Star(SepClass), Opt(<<L("extended"), Star(SepClass)>>), L("thinking")>>, "ChatGPT 5.1 Thinking" >>,
    << <<L("chatgpt"), Star(SepClass), L("5.1"), Star(SepClass), L("standard")>>, "ChatGPT 5.1" >>,
    << <<L("chatgpt"), Star(SepClass), L("5.1")>>, "ChatGPT 5.1" >>,
    << <<L("gpt"), Star(SepClass), L("5.1"), Star(SepClass), L("pro")>>, "GPT 5.1 Pro" >>,
    << <<L("gpt"), Star(SepClass), L("5.1"), Star(SepClass), L("thinking")>>, "GPT 5.1 Thinking" >>,
    << <<L("gpt"), Star(SepClass), L("5.1")>>, "GPT 5.1" >>,
    << <<L("gpt"), Star(SepClass), L("5"), Star(SepClass), L("pro")>>, "GPT 5 Pro" >>,
    << <<L("gpt"), Star(SepClass), L("5"), Star(SepClass), L("thinking")>>, "GPT 5 Thinking" >>,
    << <<L("chatgpt"), Star(SepClass), L("5")>>, "ChatGPT 5" >>,
    << <<L("gpt"), Star(SepClass), L("5")>>, "GPT 5" >>,
    << <<L("chatgpt")>>, "ChatGPT" >>,
    << <<L("codex"), Star(SepClass), L("5.1"), Star(SepClass), L("high")>>, "Codex 5.1 High" >>,
    << <<L("codex"), Star(SepClass), L("5.1")>>, "Codex 5.1" >>,
    << <<L("codex")>>, "Codex" >>,
    << <<L("claude"), Star(SepClass), L("code"), Star(SepClass), Opt(<<L("with"), Star(SepClass)>>), L("opus"), Star(SepClass), L("4.5")>>, "Claude Code (Opus 4.5)" >>,
    << <<L("claude"), Star(SepClass), L("opus"), Star(SepClass), L("4.5"), Star(SepClass), Opt(<<L("extended"), Star(SepClass)>>), L("thinking")>>, "Claude Opus 4.5 Thinking" >>,
    << <<L("opus"), Star(SepClass), L("4.5"), Star(SepClass), Opt(<<L("extended"), Star(SepClass)>>), L("thinking")>>, "Claude Opus 4.5 Thinking" >>,
    << <<L("claude"), Star(SepClass), L("opus"), Star(SepClass), L("4.5")>>, "Claude Opus 4.5" >>,
    << <<L("opus"), Star(SepClass), L("4.5")>>, "Claude Opus 4.5" >>,
    << <<L("claude"), Star(SepClass), L("sonnet"), Star(SepClass), L("4.5")>>, "Claude Sonnet 4.5" >>,
    << <<L("sonnet"), Star(SepClass), L("4.5")>>, "Claude Sonnet 4.5" >>,
    << <<L("haiku"), Star(SepClass), L("4.5")>>, "Claude Haiku 4.5" >>,
    << <<L("claude"), Star(SepClass), L("code")>>, "Claude Code" >>,
    << <<L("claude")>>, "Claude" >>,
    << <<L("gemini"), Star(SepClass), Opt(<<L("thinking"), Star(SepClass), L("with"), Star(SepClass)>>), L("pro"), Star(SepClass), L("3")>>, "Gemini Pro 3" >>,
    << <<L("gemini"), Star(SepClass), L("3"), Star(SepClass), L("pro")>>, "Gemini Pro 3" >>,
    << <<L("gemini"), Star(SepClass), L("pro"), Star(SepClass), L("2.5")>>, "Gemini Pro 2.5" >>,
    << <<L("gemini"), Star(SepClass), L("2.5"), Star(SepClass), L("pro")>>, "Gemini Pro 2.5" >>,
    << <<L("google"), Star(SepClass), L("ai"), Star(SepClass), L("studio"), Star(AnyChar), L("gemini"), Star(SepClass), L("2.5"), Star(SepClass), L("pro")>>, "Gemini Pro 2.5" >>,
    << <<L("gemini"), Star(SepClass), L("pro")>>, "Gemini Pro" >>,
    << <<L("gemini"), Star(SepClass), Opt(<<L("in"), Star(SepClass)>>), L("coll"), Opt(<<L("a")>>), L("b")>>, "Gemini (Colab)" >>,
    << <<L("gemini")>>, "Gemini" >>,
    << <<L("deepseek"), Star(SepClass), L("v3.2")>>, "DeepSeek V3.2" >>,
    << <<L("deep"), Star(SepClass), L("seek"), Star(SepClass), L("v3.2")>>, "DeepSeek V3.2" >>,
    << <<L("deepseek"), Star(SepClass), L("r1")>>, "DeepSeek R1" >>,
    << <<L("deep"), Star(SepClass), L("seek")>>, "DeepSeek" >>,
    << <<L("deepseek")>>, "DeepSeek" >>,
    << <<L("cursor"), Star(SepClass), Opt(<<L("auto"), Star(SepClass)>>), L("agent")>>, "Cursor Agent" >>,
    << <<L("cursor"), Star(SepClass), L("composer")>>, "Cursor Composer" >>,
    << <<L("cursor"), Star(SepClass), Opt(<<L("(")>>), L("opus"), Star(SepClass), L("4.5"), Opt(<<L(")")>>)>>, "Cursor (Opus 4.5)" >>,
    << <<L("cursor")>>, "Cursor" >>,
    << <<L("windsurf"), Star(SepClass), L("swe"), Star(SepClass), L("1")>>, "Windsurf SWE-1" >>,
    << <<L("windsurf")>>, "Windsurf" >>,
    << <<L("qwen3"), Star(SepClass), L("max")>>, "Qwen3-Max" >>,
    << <<L("qwen"), Star(SepClass), L("3"), Star(SepClass), L("max")>>, "Qwen3-Max" >>,
    << <<L("qwen")>>, "Qwen" >>,
    << <<L("mistral"), Star(SepClass), Opt(<<L("ai"), Opt(<<L("'")>>), Opt(<<L("s")>>), Star(SepClass)>>), L("le"), Star(SepClass), L("chat")>>, "Mistral Le Chat" >>,
    << <<L("mistral"), Star(SepClass), L("ai")>>, "Mistral" >>,
    << <<L("mistral")>>, "Mistral" >>,
    << <<L("grok"), Star(SepClass), L("4.1")>>, "Grok 4.1" >>,
    << <<L("grok"), Star(SepClass), Opt(<<L("with"), Star(SepClass)>>), L("fast"), Star(SepClass), L("mode")>>, "Grok (Fast Mode)" >>,
    << <<L("gork")>>, "Grok" >>,
    << <<L("grok")>>, "Grok" >>,
    << <<L("kimi"), Star(SepClass), L("k2")>>, "Kimi K2" >>,
    << <<L("kimi"), Star(SepClass), L("1.5")>>, "Kimi 1.5" >>,
    << <<L("kimi")>>, "Kimi" >>,
    << <<L("perplexity"), Star(SepClass), L("pro")>>, "Perplexity Pro" >>,
    << <<L("perplexity")>>, "Perplexity" >>,
    << <<L("llama"), Star(SepClass), L("4"), Star(SepClass), L("maverick")>>, "Llama 4 Maverick" >>,
    << <<L("llama")>>, "Llama" >>,
    << <<L("seed"), Star(SepClass), L("1.6")>>, "Seed 1.6 (ByteDance)" >>,
    << <<L("aider")>>, "Aider" >>,
    << <<L("cline")>>, "Cline" >>,
    << <<L("replit")>>, "Replit" >>
  >>

RuleIds == 1..Len(model_patterns)

\* text = f"{title} {content}"
ModelText(t, c) == t \o " " \o c

\* the table as re.IGNORECASE reads it
model_patterns_folded == [i \in RuleIds |-> FoldPattern(model_patterns[i][1])]

\* re.search(pattern_i, text, re.IGNORECASE), ft being the text in lower case
RuleMatches(i, ft) == Search(model_patterns_folded[i], ft)

\* first start position of a match of rule i in ft (0: no match)
MatchStart(i, ft) ==
    LET S == {s \in 1..(Len(ft) + 1) : Ends(model_patterns_folded[i], ft, {s}) # {}}
    IN  IF S = {} THEN 0 ELSE SetMin(S)

\* the loop without its early return: the last matching rule overwrites
ScanRulesNoReturn(i, ft) ==
    LET hits == {k \in i..Len(model_patterns) : RuleMatches(k, ft)}
    IN  IF hits = {} THEN "Unknown" ELSE model_patterns[SetMax(hits)][2]

RECURSIVE ScanRules(_, _)
\* the for loop over model_patterns from rule i on, returning at the first hit
ScanRules(i, ft) ==
    IF i > Len(model_patterns) THEN "Unknown"
    ELSE IF RuleMatches(i, ft) THEN model_patterns[i][2]
    ELSE ScanRules(i + 1, ft)

\* extract_model choosing the rule whose match is leftmost in the text
extract_model_leftmost(t, c) ==
    LET ft == lower(ModelText(t, c))
        M  == {i \in RuleIds : RuleMatches(i, ft)}
    IN  IF M = {} THEN "Unknown"
        ELSE model_patterns[CHOOSE i \in M : \A j \in M :
                 \/ MatchStart(i, ft) < MatchStart(j, ft)
                 \/ (MatchStart(i, ft) = MatchStart(j, ft) /\ i <= j)][2]

extract_model(t, c) == ScanRules(1, lower(ModelText(t, c)))

---------------------------------------------------------------------------
(* extract_homework *)

NoValue == "<none>"     \* Python's None

\* the two alternatives of  hw[\s\-_]*0*(\d+)|homework[\s\-_]*0*(\d+)
HwWords == << "hw", "homework" >>
HwTail  == << Star(HwSepClass), Star(Chr("0")), Plus(DigitClass) >>

\* A greedy X* followed by `rest`: the engine takes the longest run after
\* which the rest of the pattern still matches (backtracking gives back one
\* character at a time).  {} when the rest matches after no run.
GreedyEnd(cls, rest, t, i) ==
    LET ok == {j \in Runs(cls, t, i) : Ends(rest, t, {j}) # {}}
    IN  IF ok = {} THEN {} ELSE {SetMax(ok)}

\* a match as [end, groups]; NoMatch when the pattern does not match
NoMatch == [end |-> 0, groups |-> << "", "" >>]

\* the match of alternative n whose captured digits start at z
HwGroups(n, ft, z) ==
    LET d == SetMax(Runs(DigitClass, ft, z))
        g == SubSeq(ft, z, d - 1)
    IN  [end |-> d, groups |-> IF n = 1 THEN << g, "" >> ELSE << "", g >>]

\* the one match of a set of at most one, or NoMatch
TheMatch(found) == IF found = {} THEN NoMatch ELSE CHOOSE mt \in found : TRUE

\* Alternative n tried at position i of the lower-cased text ft: the word,
\* the greedy separators, the greedy zeros, the captured digits
HwAltAt(n, ft, i) ==
    TheMatch(
      IF /\ i + Len(HwWords[n]) - 1 <= Len(ft)
         /\ SubSeq(ft, i, i + Len(HwWords[n]) - 1) = HwWords[n]
      THEN {HwGroups(n, ft, z) :
              z \in UNION {GreedyEnd(Chr("0"), Tail(Tail(HwTail)), ft, j) :
                     j \in GreedyEnd(HwSepClass, Tail(HwTail), ft, i + Len(HwWords[n]))}}
      ELSE {})

\* of the alternatives tried at one position, the first that matches
FirstAlternative(alts) == IF alts[1] # NoMatch THEN alts[1] ELSE alts[2]

\* the match starting at i
HwMatchAt(ft, i) == FirstAlternative([n \in DOMAIN HwWords |-> HwAltAt(n, ft, i)])

RECURSIVE HwCollect(_, _)
\* the group tuples of the non-overlapping matches, left to right, from
\* position `from` on; at[i] is the match starting at i
HwCollect(at, from) ==
    LET starts == {i \in DOMAIN at : i >= from /\ at[i] # NoMatch}
    IN  IF starts = {} THEN << >>
        ELSE << at[SetMin(starts)].groups >> \o HwCollect(at, at[SetMin(starts)].end)

\* re.findall(pattern, text, re.IGNORECASE)
HwFindAll(ft) == HwCollect([i \in 1..Len(ft) |-> HwMatchAt(ft, i)], 1)

RECURSIVE int(_)
\* int(s) for a string of decimal digits
int(s) ==
    IF Len(s) = 0 THEN 0
    ELSE 10 * int(SubSeq(s, 1, Len(s) - 1))
         + (CHOOSE k \in 1..Len(Digits) : CharAt(Digits, k) = CharAt(s, Len(s))) - 1

RECURSIVE HwLoopIntTruthy(_)
\* the loop testing the converted number: hw_num = int(...); if hw_num:
HwLoopIntTruthy(matches) ==
    IF Len(matches) = 0 THEN NoValue
    ELSE LET match  == Head(matches)
             hw_num == int(IF match[1] # "" THEN match[1] ELSE match[2])
         IN  IF hw_num # 0 THEN "HW" \o ToString(hw_num)
             ELSE HwLoopIntTruthy(Tail(matches))

RECURSIVE HwLoop(_)
\* for match in matches: hw_num = match[0] or match[1]; if hw_num: return ...
HwLoop(matches) ==
    IF Len(matches) = 0 THEN NoValue
    ELSE LET match  == Head(matches)
             hw_num == IF match[1] # "" THEN match[1] ELSE match[2]
         IN  IF hw_num # "" THEN "HW" \o ToString(int(hw_num))
             ELSE HwLoop(Tail(matches))

\* the value a scan returned, or the final  return "Unknown"
OrUnknown(found) == IF found # NoValue THEN found ELSE "Unknown"

\* the value returned after the scans of the texts, taken in order: that of
\* the first scan that returns, "Unknown" when none does
FirstReturn(scans) ==
    IF scans[1] # NoValue THEN scans[1] ELSE OrUnknown(scans[2])

\* the findall and the loop over its matches, as run on one text
HwScan(texts) == [k \in DOMAIN texts |-> HwLoop(HwFindAll(lower(texts[k])))]

\* extract_homework scanning the content before the title
extract_homework_content_first(t, c) == FirstReturn(HwScan(<< c, t >>))

\* text = title, then text = content
extract_homework(t, c) == FirstReturn(HwScan(<< t, c >>))

---------------------------------------------------------------------------
(* analyze_outcome *)

Outcomes == {"success", "partial", "failed", "unknown"}

strong_success ==
  <<
    <<L("one-shot")>>,
    <<L("one shot")>>,
    <<L("oneshot")>>,
    <<L("zero-shot")>>,
    <<L("zero shot")>>,
    <<L("one-shotted")>>,
    <<L("correctly solved")>>,
    <<L("perfectly")>>,
    <<L("flawless")>>,
    <<L("all"), Star(AnyChar), L("correct")>>,
    <<L("100%")>>,
    <<L("excellent")>>,
    <<L("exceptional")>>,
    <<L("impressive")>>,
    <<L("very strong")>>,
    <<L("very well")>>,
    <<L("no issues")>>,
    <<L("no errors")>>,
    <<L("without"), Star(AnyChar), L("correction")>>,
    <<L("without"), Star(AnyChar), L("debugging")>>
  >>
partial_indicators ==
  <<
    <<L("eventually")>>,
    <<L("after"), Star(AnyChar), L("prompting")>>,
    <<L("with"), Star(AnyChar), L("hint")>>,
    <<L("needed"), Star(AnyChar), L("help")>>,
    <<L("required"), Star(AnyChar), L("guidance")>>,
    <<L("with"), Star(AnyChar), L("nudge")>>,
    <<L("after"), Star(AnyChar), L("feedback")>>,
    <<L("minor"), Star(AnyChar), L("error")>>,
    <<L("small"), Star(AnyChar), L("mistake")>>,
    <<L("mostly"), Star(AnyChar), L("correct")>>,
    <<L("almost"), Star(AnyChar), L("correct")>>,
    <<L("close")>>,
    <<L("nearly")>>
  >>
failure_indicators ==
  <<
    <<L("failed")>>,
    <<L("couldn't")>>,
    <<L("unable to")>>,
    <<L("struggled significantly")>>,
    <<L("did not work")>>,
    <<L("incorrect")>>,
    <<L("wrong")>>,
    <<L("disappointed")>>,
    <<L("poor performance")>>,
    <<L("multiple"), Star(AnyChar), L("error")>>,
    <<L("kept"), Star(AnyChar), L("failing")>>
  >>

\* sum(1 for ind in indicators if re.search(ind, content_lower))
Score(indicators, content_lower) ==
    Cardinality({i \in DOMAIN indicators : Search(indicators[i], content_lower)})

success_score(c) == Score(strong_success, lower(c))
partial_score(c) == Score(partial_indicators, lower(c))
failure_score(c) == Score(failure_indicators, lower(c))

\* Decide with the volume test taken before the partial-dominance test
DecideSuccessFirst(s, p, f) ==
    IF f > s + 2 THEN "failed"
    ELSE IF s >= 2 THEN "success"
    ELSE IF s > 0 /\ p > s THEN "partial"
    ELSE IF p > 0 THEN "partial"
    ELSE IF f > 0 THEN "failed"
    ELSE "unknown"

\* Decide with the failure-dominance test taken after the partial test
DecidePartialFirst(s, p, f) ==
    IF s > 0 /\ p > s THEN "partial"
    ELSE IF f > s + 2 THEN "failed"
    ELSE IF s >= 2 THEN "success"
    ELSE IF p > 0 THEN "partial"
    ELSE IF f > 0 THEN "failed"
    ELSE "unknown"

\* the if / elif chain over the three scores
Decide(s, p, f) ==
    IF f > s + 2 THEN "failed"
    ELSE IF s > 0 /\ p > s THEN "partial"
    ELSE IF s >= 2 THEN "success"
    ELSE IF p > 0 THEN "partial"
    ELSE IF f > 0 THEN "failed"
    ELSE "unknown"

analyze_outcome(c) == Decide(success_score(c), partial_score(c), failure_score(c))

---------------------------------------------------------------------------
(* extract_failure_modes *)

FAILURE_PATTERNS ==
  <<
    [ id |-> "hallucination", label |-> "Hallucination",
      keywords |-> <<
         <<L("hallucinate")>>,
         <<L("hallucination")>>,
         <<L("hallucinated")>>,
         <<L("made up")>>,
         <<L("fabricate")>>,
         <<L("invented")>>,
         <<L("imagined")>>,
         <<L("claims"), Star(AnyChar), L("not"), Star(AnyChar), L("true")>>,
         <<L("confidently"), Star(AnyChar), L("wrong")>>,
         <<L("described patterns that did not match")>>,
         <<L("hallucinations")>> >> ],
    [ id |-> "context_loss", label |-> "Context Loss",
      keywords |-> <<
         <<L("lost context")>>,
         <<L("forgot")>>,
         <<L("context window")>>,
         <<L("lost track")>>,
         <<L("didn't remember")>>,
         <<L("context limit")>>,
         <<L("large context")>>,
         <<L("long context")>>,
         <<L("context"), Star(AnyChar), L("struggle")>> >> ],
    [ id |-> "wrong_algorithm", label |-> "Wrong Algorithm/Approach",
      keywords |-> <<
         <<L("wrong algorithm")>>,
         <<L("misunderstood")>>,
         <<L("wrong approach")>>,
         <<L("misinterpreted")>>,
         <<L("missed the point")>>,
         <<L("completely wrong")>>,
         <<L("fundamentally"), Star(AnyChar), L("wrong")>>,
         <<L("proposed"), Star(AnyChar), L("different"), Star(AnyChar), L("solution")>>,
         <<L("instead"), Star(AnyChar), L("proposed")>> >> ],
    [ id |-> "api_confusion", label |-> "API/Library Confusion",
      keywords |-> <<
         <<L("wrong api")>>,
         <<L("api confusion")>>,
         <<L("wrong function")>>,
         <<L("wrong library")>>,
         <<L("imported function")>>,
         <<L("couldn't find"), Star(AnyChar), L("function")>>,
         <<L("niche function")>>,
         <<L("unfamiliar"), Star(AnyChar), L("package")>>,
         <<L("didn't use"), Star(AnyChar), L("helper")>> >> ],
    [ id |-> "dimension_errors", label |-> "Dimension/Shape Errors",
      keywords |-> <<
         <<L("dimension")>>,
         <<L("shape error")>>,
         <<L("shape mismatch")>>,
         <<L("broadcasting")>>,
         <<L("tensor"), Star(AnyChar), L("shape")>>,
         <<L("wrong"), Star(AnyChar), L("dimension")>>,
         <<L("RuntimeError"), Star(AnyChar), L("dimension")>>,
         <<L("size mismatch")>> >> ],
    [ id |-> "instruction_violation", label |-> "Instruction Violation",
      keywords |-> <<
         <<L("didn't follow")>>,
         <<L("ignored"), Star(AnyChar), L("instruction")>>,
         <<L("violated"), Star(AnyChar), L("constraint")>>,
         <<L("despite"), Star(AnyChar), L("explicit")>>,
         <<L("even though"), Star(AnyChar), L("asked")>>,
         <<L("failed to follow")>>,
         <<L("didn't stick to")>>,
         <<L("changed"), Star(AnyChar), L("unrelated")>>,
         <<L("modified"), Star(AnyChar), L("shouldn't")>> >> ],
    [ id |-> "hyperparameter_tuning", label |-> "Hyperparameter Tuning",
      keywords |-> <<
         <<L("hyperparameter")>>,
         <<L("learning rate")>>,
         <<L("couldn't"), Star(AnyChar), L("tune")>>,
         <<L("parameter"), Star(AnyChar), L("tuning")>>,
         <<L("trial"), Star(AnyChar), L("error")>>,
         <<L("grid search")>>,
         <<L("couldn't find"), Star(AnyChar), L("parameters")>>,
         <<L("parameters"), Star(AnyChar), L("didn't work")>> >> ],
    [ id |-> "visual_reasoning", label |-> "Visual Reasoning Issues",
      keywords |-> <<
         <<L("couldn't"), Star(AnyChar), L("see")>>,
         <<L("visual"), Star(AnyChar), L("reasoning")>>,
         <<L("couldn't"), Star(AnyChar), L("interpret"), Star(AnyChar), L("image")>>,
         <<L("vision"), Star(AnyChar), L("unreliable")>>,
         <<L("couldn't"), Star(AnyChar), L("read"), Star(AnyChar), L("graph")>>,
         <<L("image"), Star(AnyChar), L("understanding")>>,
         <<L("plot"), Star(AnyChar), L("interpretation")>>,
         <<L("visual"), Star(AnyChar), L("blind")>> >> ],
    [ id |-> "conceptual_gap", label |-> "Conceptual Understanding Gap",
      keywords |-> <<
         <<L("conceptual"), Star(AnyChar), L("gap")>>,
         <<L("didn't understand")>>,
         <<L("misconception")>>,
         <<L("theoretical"), Star(AnyChar), L("weak")>>,
         <<L("conceptual"), Star(AnyChar), L("error")>>,
         <<L("wrong"), Star(AnyChar), L("intuition")>>,
         <<L("misunderstand"), Star(AnyChar), L("concept")>> >> ],
    [ id |-> "debugging_struggles", label |-> "Debugging Struggles",
      keywords |-> <<
         <<L("couldn't"), Star(AnyChar), L("debug")>>,
         <<L("stuck"), Star(AnyChar), L("loop")>>,
         <<L("repeated"), Star(AnyChar), L("same"), Star(AnyChar), L("error")>>,
         <<L("couldn't"), Star(AnyChar), L("fix")>>,
         <<L("debugging"), Star(AnyChar), L("difficult")>>,
         <<L("multiple"), Star(AnyChar), L("tries")>>,
         <<L("iteration"), Star(AnyChar), L("still"), Star(AnyChar), L("wrong")>>,
         <<L("couldn't"), Star(AnyChar), L("recover")>> >> ],
    [ id |-> "verbosity", label |-> "Excessive Verbosity",
      keywords |-> <<
         <<L("too verbose")>>,
         <<L("verbose")>>,
         <<L("unnecessarily"), Star(AnyChar), L("long")>>,
         <<L("chatty")>>,
         <<L("too"), Star(AnyChar), L("explanation")>>,
         <<L("overly"), Star(AnyChar), L("detailed")>> >> ],
    [ id |-> "overcomplicated", label |-> "Overcomplicated Solution",
      keywords |-> <<
         <<L("overcomplicate")>>,
         <<L("over-engineer")>>,
         <<L("too complex")>>,
         <<L("unnecessarily complex")>>,
         <<L("could have simply")>>,
         <<L("simple"), Star(AnyChar), L("fix")>>,
         <<L("overcomplicat")>> >> ]
  >>

\* the inner loop without its break: one append for every keyword found
AllKeywords(keywords, id, content_lower) ==
    [n \in 1..Cardinality({k \in DOMAIN keywords : Search(keywords[k], content_lower)})
        |-> id]

RECURSIVE ScanFailuresNoBreak(_, _)
ScanFailuresNoBreak(i, content_lower) ==
    IF i > Len(FAILURE_PATTERNS) THEN << >>
    ELSE AllKeywords(FAILURE_PATTERNS[i].keywords, FAILURE_PATTERNS[i].id, content_lower)
         \o ScanFailuresNoBreak(i + 1, content_lower)

RECURSIVE AnyKeyword(_, _)
\* the inner loop: some keyword of the list is found in the text
AnyKeyword(keywords, content_lower) ==
    IF Len(keywords) = 0 THEN FALSE
    ELSE IF Search(Head(keywords), content_lower) THEN TRUE
    ELSE AnyKeyword(Tail(keywords), content_lower)

RECURSIVE ScanFailures(_, _)
\* the outer loop over the catalog from entry i on
ScanFailures(i, content_lower) ==
    IF i > Len(FAILURE_PATTERNS) THEN << >>
    ELSE (IF AnyKeyword(FAILURE_PATTERNS[i].keywords, content_lower)
            THEN << FAILURE_PATTERNS[i].id >> ELSE << >>)
         \o ScanFailures(i + 1, content_lower)

\* the scan of the text as it is written, capitals kept
ScanAsWritten(c) == ScanFailures(1, c)

extract_failure_modes(c) == ScanFailures(1, lower(c))

---------------------------------------------------------------------------
(* extract_key_observations *)

\* Strings here are ASCII: the six bullet glyphs of bullet_patterns are
\* written * @ # $ % & and the en dash and the em dash ~ and =
BulletGlyphs == {"*", "@", "#", "$", "%", "&"}
DashGlyphs   == {"-", "~", "="}
Terminators  == {".", "!", "?"}

Bol == [k |-> "bol"]                       \* ^ under re.MULTILINE

\* s[:n]
Prefix(s, n) == SubSeq(s, 1, IF Len(s) < n THEN Len(s) ELSE n)

RECURSIVE Flat(_)
\* the concatenation of a sequence of sequences
Flat(ss) ==
    IF Len(ss) = 0 THEN << >>
    ELSE IF Len(ss) = 1 THEN ss[1]
    ELSE Flat(SubSeq(ss, 1, Len(ss) \div 2)) \o Flat(SubSeq(ss, Len(ss) \div 2 + 1, Len(ss)))

\* the ends of the runs of class characters from i that are at least that
\* long, the longest first: the order in which a greedy X* or X+ tries them
RunsDown(cls, t, i, least) ==
    [k \in 1..(SetMax(Runs(cls, t, i)) - i - least + 1) |->
        SetMax(Runs(cls, t, i)) - k + 1]

RECURSIVE Paths(_, _, _)
\* Where a match of atom sequence p that starts at i can end, in the order in
\* which the backtracking engine comes to them.
Paths(p, t, i) ==
    IF Len(p) = 0 THEN << i >>
    ELSE LET a == Head(p)
             firsts ==
               CASE a.k = "lit" ->
                      IF /\ i + Len(a.s) - 1 <= Len(t)
                         /\ SubSeq(t, i, i + Len(a.s) - 1) = a.s
                      THEN << i + Len(a.s) >> ELSE << >>
                 [] a.k = "star" -> RunsDown(a.c, t, i, 0)
                 [] a.k = "plus" -> RunsDown(a.c, t, i, 1)
                 [] a.k = "opt"  -> Paths(a.p, t, i) \o << i >>
                 [] a.k = "one"  ->
                      IF i <= Len(t) /\ InClass(CharAt(t, i), a.c)
                      THEN << i + 1 >> ELSE << >>
                 [] a.k = "alt"  -> Flat([n \in DOMAIN a.ps |-> Paths(a.ps[n], t, i)])
                 [] a.k = "bol"  ->
                      IF i = 1 \/ CharAt(t, i - 1) = "\n" THEN << i >> ELSE << >>
         IN  Flat([k \in DOMAIN firsts |-> Paths(Tail(p), t, firsts[k])])

\* capture groups: X{min,max} (no max when not bounded), then one character
\* of close when the group is closed by one
Sentence ==                                \* ([^.!?]+[.!?])
    [c |-> [neg |-> TRUE, set |-> Terminators], min |-> 1, bounded |-> FALSE,
     max |-> 0, closed |-> TRUE, close |-> CharSet(Terminators)]
SentenceOrBare ==                          \* ([^.!?]*[.!?])
    [c |-> [neg |-> TRUE, set |-> Terminators], min |-> 0, bounded |-> FALSE,
     max |-> 0, closed |-> TRUE, close |-> CharSet(Terminators)]
LineRest ==                                \* ([^.!?\n]+)
    [c |-> [neg |-> TRUE, set |-> Terminators \cup {"\n"}], min |-> 1,
     bounded |-> FALSE, max |-> 0, closed |-> FALSE, close |-> CharSet({})]
BulletRest ==                              \* ([^\n<glyphs>]{20,200})
    [c |-> [neg |-> TRUE, set |-> BulletGlyphs \cup {"\n"}], min |-> 20,
     bounded |-> TRUE, max |-> 200, closed |-> FALSE, close |-> CharSet({})]
ItemRest ==                                \* ([^\n]{20,200})
    [c |-> [neg |-> TRUE, set |-> {"\n"}], min |-> 20,
     bounded |-> TRUE, max |-> 200, closed |-> FALSE, close |-> CharSet({})]

\* the number of characters the group takes when it starts at g, -1 when it
\* does not match there: the longest admissible run after which the closing
\* character, if any, follows
GroupLen(grp, t, g) ==
    LET run == SetMax(Runs(grp.c, t, g)) - g
        ok  == {n \in grp.min..(IF grp.bounded /\ grp.max < run THEN grp.max ELSE run) :
                  grp.closed => /\ g + n <= Len(t)
                                /\ InClass(CharAt(t, g + n), grp.close)}
    IN  IF ok = {} THEN -1 ELSE SetMax(ok) + (IF grp.closed THEN 1 ELSE 0)

\* a rule: the atoms before the group, the group (the last thing in every
\* pattern), whether the group is optional "( ... )?", and the label
Rule(pre, grp, label) == [pre |-> pre, grp |-> grp, optional |-> FALSE, label |-> label]

OptColon   == Opt(<< L(":") >>)            \* :?
OptOneOf(S) == Opt(<< One(CharSet(S)) >>)  \* [..]?

strength_patterns ==
    << Rule(<< L("strength"), OptOneOf({"s"}), OptColon, Star(SpaceClass) >>, Sentence, "Strength"),
       Rule(<< L("worked well"), OptColon, Star(SpaceClass) >>, Sentence, "Worked Well"),
       Rule(<< L("excelled at"), OptColon, Star(SpaceClass) >>, Sentence, "Excelled At"),
       Rule(<< L("strong at"), OptColon, Star(SpaceClass) >>, Sentence, "Strong At"),
       Rule(<< L("impressive"), OptOneOf({"l", "y"}), Plus(SpaceClass) >>, Sentence, "Impressive"),
       Rule(<< L("correctly"), Plus(SpaceClass) >>, Sentence, "Correct"),
       [pre |-> << L("one"), OptOneOf({"-", " "}), L("shot"),
                   Opt(<< Alt(<< << L("ted") >>, << L("ting") >> >>) >>), Star(SpaceClass) >>,
        grp |-> SentenceOrBare, optional |-> TRUE, label |-> "One-Shot"],
       Rule(<< L("nailed"), Plus(SpaceClass) >>, Sentence, "Nailed"),
       Rule(<< L("perfect"), Opt(<< L("ly") >>), Plus(SpaceClass) >>, Sentence, "Perfect") >>

weakness_patterns ==
    << Rule(<< L("weakness"), OptOneOf({"e", "s"}), OptColon, Star(SpaceClass) >>, Sentence, "Weakness"),
       Rule(<< L("struggled with"), OptColon, Star(SpaceClass) >>, Sentence, "Struggled With"),
       Rule(<< L("failed to"), OptColon, Star(SpaceClass) >>, Sentence, "Failed To"),
       Rule(<< L("limitation"), OptOneOf({"s"}), OptColon, Star(SpaceClass) >>, Sentence, "Limitation"),
       Rule(<< L("incorrect"), Opt(<< L("ly") >>), Plus(SpaceClass) >>, Sentence, "Incorrect"),
       Rule(<< L("error"), OptColon, Star(SpaceClass) >>, Sentence, "Error"),
       Rule(<< L("bug"), OptColon, Star(SpaceClass) >>, Sentence, "Bug"),
       Rule(<< L("wrong"), Plus(SpaceClass) >>, Sentence, "Wrong"),
       Rule(<< L("confused"), Plus(SpaceClass) >>, Sentence, "Confused") >>

annotation_patterns ==
    << Rule(<< L("[annotation]"), OptColon, Star(SpaceClass) >>, LineRest, "Annotation"),
       Rule(<< L("comment"), OptColon, Star(SpaceClass) >>, LineRest, "Comment"),
       Rule(<< L("note"), OptColon, Star(SpaceClass) >>, LineRest, "Note"),
       Rule(<< L("fix"), Opt(<< L("ed") >>), OptColon, Star(SpaceClass) >>, LineRest, "Fix"),
       Rule(<< L("issue"), OptColon, Star(SpaceClass) >>, LineRest, "Issue") >>

bullet_patterns ==
    << Rule(<< One(CharSet(BulletGlyphs)), Star(SpaceClass) >>, BulletRest, "Observation"),
       Rule(<< Bol, Star(SpaceClass), One(CharSet(DashGlyphs)), Plus(SpaceClass) >>,
            ItemRest, "Observation"),
       Rule(<< Bol, Star(SpaceClass), Plus(DigitClass), One(CharSet({".", ")"})),
               Plus(SpaceClass) >>, ItemRest, "Observation") >>

\* the match of a rule that starts at i, as [end, from, took]: where the match
\* ends, where the group starts, whether the group took part
NoObsMatch == [end |-> 0, from |-> 0, took |-> FALSE]

\* The engine takes the first way through the atoms before the group after
\* which the group matches; an optional group is skipped when it does not
\* match after the first way.
ObsMatchAt(rule, t, i) ==
    LET gs   == Paths(rule.pre, t, i)
        lens == [k \in DOMAIN gs |-> GroupLen(rule.grp, t, gs[k])]
        hits == {k \in DOMAIN gs : lens[k] >= 0}
    IN  IF Len(gs) = 0 THEN NoObsMatch
        ELSE IF rule.optional
             THEN [end |-> gs[1] + (IF lens[1] >= 0 THEN lens[1] ELSE 0),
                   from |-> gs[1], took |-> lens[1] >= 0]
        ELSE IF hits = {} THEN NoObsMatch
        ELSE [end |-> gs[SetMin(hits)] + lens[SetMin(hits)],
              from |-> gs[SetMin(hits)], took |-> TRUE]

RECURSIVE FindFirst(_, _, _, _, _)
\* re.findall(rule, content)[:n]: the group of the leftmost match, then of the
\* leftmost match that starts at or after the end of the one before, n times
\* at most; the empty string for a group that took no part.  tm is the text the engine
\* compares with (content, or content.lower() under re.IGNORECASE), starts the
\* positions of tm a match starts at.
FindFirst(rule, tm, txt, starts, n) ==
    IF n = 0 \/ starts = {} THEN << >>
    ELSE LET mt == ObsMatchAt(rule, tm, SetMin(starts))
         IN  << IF mt.took THEN SubSeq(txt, mt.from, mt.end - 1) ELSE "" >>
             \o FindFirst(rule, tm, txt, {s \in starts : s >= mt.end}, n - 1)

FindAllFirst(rule, tm, txt, n) ==
    FindFirst(rule, tm, txt,
              {i \in 1..Len(tm) : ObsMatchAt(rule, tm, i).end > 0}, n)

\* the rule as re.IGNORECASE reads it
FoldRule(rule) == [rule EXCEPT !.pre = FoldPattern(rule.pre)]

\* for match in matches[:n]: if match and len(match.strip()) > least: append
Kept(matches, type, label, least) ==
    Flat([k \in DOMAIN matches |->
            IF Len(matches[k]) > 0 /\ Len(strip(matches[k])) > least
            THEN << [type |-> type, label |-> label,
                     text |-> Prefix(strip(matches[k]), 200)] >>
            ELSE << >>])

\* the loops with the length filter applied before the limit
FamilyObservationsFilterFirst(patterns, type, txt, txt_lower, n, least) ==
    Flat([r \in DOMAIN patterns |->
            Prefix(Kept(FindAllFirst(FoldRule(patterns[r]), txt_lower, txt, Len(txt)),
                        type, patterns[r].label, least), n)])

\* one of the three loops over (pattern, label) pairs
FamilyObservations(patterns, type, txt, txt_lower, n, least) ==
    Flat([r \in DOMAIN patterns |->
            Kept(FindAllFirst(FoldRule(patterns[r]), txt_lower, txt, n),
                 type, patterns[r].label, least)])

StrengthWords == << "good", "correct", "success", "well", "proper" >>
WeaknessWords == << "wrong", "error", "fail", "issue", "bug", "incorrect" >>

\* any(w in text.lower() for w in words)
AnyWord(words, text_lower) == \E k \in DOMAIN words : Contains(text_lower, words[k])

\* the classification of one bullet: text is match.strip()
Classified(text, text_lower) ==
    IF AnyWord(StrengthWords, text_lower)
    THEN << [type |-> "strength", label |-> "Observation", text |-> Prefix(text, 200)] >>
    ELSE IF AnyWord(WeaknessWords, text_lower)
    THEN << [type |-> "weakness", label |-> "Observation", text |-> Prefix(text, 200)] >>
    ELSE << >>

ClassifiedAll(matches) ==
    Flat([k \in DOMAIN matches |-> Classified(strip(matches[k]), lower(strip(matches[k])))])

\* the loop over bullet_patterns with every match taken
BulletObservationsUncapped(txt) ==
    Flat([r \in DOMAIN bullet_patterns |->
            ClassifiedAll(FindAllFirst(bullet_patterns[r], txt, txt, Len(txt)))])

\* the loop over bullet_patterns (re.MULTILINE, five matches per pattern)
BulletObservations(txt) ==
    Flat([r \in DOMAIN bullet_patterns |->
            ClassifiedAll(FindAllFirst(bullet_patterns[r], txt, txt, 5))])

\* observations, before the deduplication
Candidates(txt, txt_lower) ==
    FamilyObservations(strength_patterns, "strength", txt, txt_lower, 3, 10)
    \o FamilyObservations(weakness_patterns, "weakness", txt, txt_lower, 3, 10)
    \o FamilyObservations(annotation_patterns, "annotation", txt, txt_lower, 5, 5)
    \o BulletObservations(txt)

\* the whole text as the key
TextKeyWhole(o) == lower(o.text)

\* obs['text'][:50].lower()
TextKey(o) == lower(Prefix(o.text, 50))

\* every observation kept, duplicates included
KeepAll(obs) == obs

\* the deduplication loop: an observation is kept when no earlier one has
\* its key
Unique(obs) ==
    Flat([k \in DOMAIN obs |->
            IF \A j \in 1..(k - 1) : TextKey(obs[j]) # TextKey(obs[k])
            THEN << obs[k] >> ELSE << >>])

\* the list before the deduplication and the list returned
ObservationLists(observations) ==
    [observations |-> observations, returned |-> Prefix(Unique(observations), 20)]

extract_key_observations(txt) == ObservationLists(Candidates(txt, lower(txt))).returned

---------------------------------------------------------------------------
(* The enrichment loop and the statistics fold *)

EmptyMap == [x \in {} |-> 0]

PdfSeparator == "\n\n--- PDF ANNOTATIONS ---\n"

\* pdf_content_map.get(post_id, '')
PdfText(map, post) == IF post.id \in DOMAIN map THEN map[post.id] ELSE ""

\* the content alone, whatever the map holds
ContentOnly(map, post) == post.content

FullContent(map, post) ==
    IF PdfText(map, post) # "" THEN post.content \o PdfSeparator \o PdfText(map, post)
    ELSE post.content

\* an enrichment with a memory: a post that matches no model rule takes the
\* model of the post enriched before it
EnrichedRemembering(map, post) ==
    [id             |-> post.id,
     title          |-> post.title,
     content        |-> post.content,
     model          |-> IF /\ extract_model(post.title, FullContent(map, post)) = "Unknown"
                           /\ Len(enriched_posts) > 0
                        THEN enriched_posts[Len(enriched_posts)].model
                        ELSE extract_model(post.title, FullContent(map, post)),
     homework       |-> extract_homework(post.title, FullContent(map, post)),
     failure_modes  |-> extract_failure_modes(FullContent(map, post)),
     outcome        |-> analyze_outcome(FullContent(map, post)),
     has_pdf        |-> PdfText(map, post) # "",
     pdf_char_count |-> IF PdfText(map, post) # "" THEN Len(PdfText(map, post)) ELSE 0]

\* the record appended to enriched_posts for one post; its observations
\* field (extract_key_observations) takes no part in the classification or in
\* the statistics and is left out of the record
Enriched(map, post) ==
    LET pdf_text     == PdfText(map, post)
        full_content == FullContent(map, post)
    IN  [id             |-> post.id,
         title          |-> post.title,
         content        |-> post.content,
         model          |-> extract_model(post.title, full_content),
         homework       |-> extract_homework(post.title, full_content),
         failure_modes  |-> extract_failure_modes(full_content),
         outcome        |-> analyze_outcome(full_content),
         has_pdf        |-> pdf_text # "",
         pdf_char_count |-> IF pdf_text # "" THEN Len(pdf_text) ELSE 0]

\* d[k] += 1 on a defaultdict(int)
Inc(d, k) ==
    IF k \in DOMAIN d THEN [d EXCEPT ![k] = @ + 1]
    ELSE [x \in DOMAIN d \cup {k} |-> IF x = k THEN 1 ELSE d[x]]

RECURSIVE IncAll(_, _)
\* for fm in failure_modes: d[fm] += 1
IncAll(d, fms) ==
    IF Len(fms) = 0 THEN d ELSE IncAll(Inc(d, Head(fms)), Tail(fms))

\* d[k] = v, k possibly new
Put(d, k, v) == [x \in DOMAIN d \cup {k} |-> IF x = k THEN v ELSE d[x]]

\* the default values of the three defaultdicts
NewModelBucket ==
    [total |-> 0, success |-> 0, partial |-> 0, failed |-> 0, unknown |-> 0,
     homeworks |-> EmptyMap, failure_modes |-> EmptyMap]

NewHwBucket ==
    [total |-> 0, success |-> 0, partial |-> 0, failed |-> 0, unknown |-> 0,
     models |-> EmptyMap, failure_modes |-> EmptyMap]

NewFailureBucket == [total |-> 0, by_model |-> EmptyMap, by_homework |-> EmptyMap]

Get(d, k, default) == IF k \in DOMAIN d THEN d[k] ELSE default

\* the model bucket update that leaves posts of an unrecognised model out
ModelStatsSkipUnknown(stats, post) ==
    IF post.model = "Unknown" THEN stats
    ELSE LET b0 == Get(stats, post.model, NewModelBucket)
             b1 == [b0 EXCEPT !.total = @ + 1]
             b2 == [b1 EXCEPT ![post.outcome] = @ + 1]
             b3 == [b2 EXCEPT !.homeworks = Inc(@, post.homework)]
             b4 == [b3 EXCEPT !.failure_modes = IncAll(@, post.failure_modes)]
         IN  Put(stats, post.model, b4)

\* "Model stats": total, outcome counter, homework breakdown, failure modes
ModelStatsAfter(stats, post) ==
    LET b0 == Get(stats, post.model, NewModelBucket)
        b1 == [b0 EXCEPT !.total = @ + 1]
        b2 == [b1 EXCEPT ![post.outcome] = @ + 1]
        b3 == [b2 EXCEPT !.homeworks = Inc(@, post.homework)]
        b4 == [b3 EXCEPT !.failure_modes = IncAll(@, post.failure_modes)]
    IN  Put(stats, post.model, b4)

\* the homework bucket update that counts no outcome for an "unknown" post
HwStatsNoUnknownOutcome(stats, post) ==
    LET b0 == Get(stats, post.homework, NewHwBucket)
        b1 == [b0 EXCEPT !.total = @ + 1]
        b2 == IF post.outcome = "unknown" THEN b1
              ELSE [b1 EXCEPT ![post.outcome] = @ + 1]
        b3 == [b2 EXCEPT !.models = Inc(@, post.model)]
        b4 == [b3 EXCEPT !.failure_modes = IncAll(@, post.failure_modes)]
    IN  Put(stats, post.homework, b4)

\* the homework bucket update that marks a model instead of counting it
HwStatsModelsOnce(stats, post) ==
    LET b0 == Get(stats, post.homework, NewHwBucket)
        b1 == [b0 EXCEPT !.total = @ + 1]
        b2 == [b1 EXCEPT ![post.outcome] = @ + 1]
        b3 == [b2 EXCEPT !.models = Put(@, post.model, 1)]
        b4 == [b3 EXCEPT !.failure_modes = IncAll(@, post.failure_modes)]
    IN  Put(stats, post.homework, b4)

\* "HW stats": total, outcome counter, model breakdown, failure modes
HwStatsAfter(stats, post) ==
    LET b0 == Get(stats, post.homework, NewHwBucket)
        b1 == [b0 EXCEPT !.total = @ + 1]
        b2 == [b1 EXCEPT ![post.outcome] = @ + 1]
        b3 == [b2 EXCEPT !.models = Inc(@, post.model)]
        b4 == [b3 EXCEPT !.failure_modes = IncAll(@, post.failure_modes)]
    IN  Put(stats, post.homework, b4)

\* the failure-mode update that stops after the first mode of the post
FailureStatsFirstOnly(stats, fms, post) ==
    IF Len(fms) = 0 THEN stats
    ELSE Put(stats, Head(fms),
             [Get(stats, Head(fms), NewFailureBucket) EXCEPT
                 !.total = @ + 1,
                 !.by_model = Inc(@, post.model),
                 !.by_homework = Inc(@, post.homework)])

Range(s) == {s[k] : k \in DOMAIN s}

\* a dict keeps its keys in the order of their first insertion
AppendNew(order, k) == IF k \in Range(order) THEN order ELSE Append(order, k)

RECURSIVE AppendAllNew(_, _)
AppendAllNew(order, ks) ==
    IF Len(ks) = 0 THEN order ELSE AppendAllNew(AppendNew(order, Head(ks)), Tail(ks))

NoKeys == [model_stats |-> << >>, hw_stats |-> << >>, failure_mode_stats |-> << >>]

\* the key orders after one post is folded
KeysAfter(keys, post) ==
    [model_stats        |-> AppendNew(keys.model_stats, post.model),
     hw_stats           |-> AppendNew(keys.hw_stats, post.homework),
     failure_mode_stats |-> AppendAllNew(keys.failure_mode_stats, post.failure_modes)]

RECURSIVE FailureStatsAfter(_, _, _)
\* for fm in failure_modes: total, by_model, by_homework
FailureStatsAfter(stats, fms, post) ==
    IF Len(fms) = 0 THEN stats
    ELSE LET fm == Head(fms)
             b0 == Get(stats, fm, NewFailureBucket)
             b1 == [b0 EXCEPT !.total = @ + 1,
                              !.by_model = Inc(@, post.model),
                              !.by_homework = Inc(@, post.homework)]
         IN  FailureStatsAfter(Put(stats, fm, b1), Tail(fms), post)

---------------------------------------------------------------------------
(* analysis_output['summary'] *)

\* the same count over the posts of a known model only
CountOutcomeOfKnown(ps, o) ==
    Cardinality({k \in DOMAIN ps : ps[k].outcome = o /\ ps[k].model # "Unknown"})

\* sum(1 for p in enriched_posts if p['outcome'] == o)
CountOutcome(ps, o) == Cardinality({k \in DOMAIN ps : ps[k].outcome = o})

\* round(s / n * 100, 1) in tenths of a percent, n > 0: the nearest tenth,
\* the even one of two equally near (the float arithmetic of the source
\* agrees wherever s * 1000 / n is not within rounding error of a half)
RoundedRate(s, n) ==
    LET q == (s * 1000) \div n
        r == (s * 1000) % n
    IN  IF 2 * r > n \/ (2 * r = n /\ q % 2 = 1) THEN q + 1 ELSE q

\* Python's None where the other value is a tuple
None == << >>

\* the last of the pairs whose second component is the largest
LastMaxByTotal(pairs) ==
    pairs[SetMax({k \in DOMAIN pairs :
                    \A j \in DOMAIN pairs : pairs[j][2] <= pairs[k][2]})]

\* max(pairs, key=lambda x: x[1]) on a non-empty list: the first of the pairs
\* whose second component is the largest
MaxByTotal(pairs) ==
    pairs[SetMin({k \in DOMAIN pairs :
                    \A j \in DOMAIN pairs : pairs[j][2] <= pairs[k][2]})]

LabelOf(fm) ==
    FAILURE_PATTERNS[CHOOSE i \in DOMAIN FAILURE_PATTERNS : FAILURE_PATTERNS[i].id = fm].label

\* [(FAILURE_PATTERNS[fm]['label'], stats['total']) for fm, stats in ...items()]
FailurePairs(keys, fstats) ==
    [k \in DOMAIN keys |-> << LabelOf(keys[k]), fstats[keys[k]].total >>]

NotUnknown(pair) == pair[1] # "Unknown"

\* [(m, stats['total']) for m, stats in model_stats.items() if m != 'Unknown']
ModelPairs(keys, mstats) ==
    SelectSeq([k \in DOMAIN keys |-> << keys[k], mstats[keys[k]].total >>], NotUnknown)

\* the exception raised while the summary is evaluated, NoValue if none:
\* the division of overall_success_rate comes first, the max() of top_model
\* last (top_failure_mode is guarded by its own condition)
SummaryError(ps, keys, mstats) ==
    IF Len(ps) = 0 THEN "ZeroDivisionError"
    ELSE IF Len(keys.model_stats) # 0 /\ Len(ModelPairs(keys.model_stats, mstats)) = 0
         THEN "ValueError"
    ELSE NoValue

\* the summary dict, when nothing is raised
Summary(ps, keys, mstats, hstats, fstats) ==
    [total_posts          |-> Len(ps),
     total_models         |-> Len(keys.model_stats),
     total_homeworks      |-> Cardinality(Range(keys.hw_stats) \ {"Unknown"}),
     overall_success_rate |-> RoundedRate(CountOutcome(ps, "success"), Len(ps)),
     outcomes             |-> [o \in Outcomes |-> CountOutcome(ps, o)],
     posts_with_pdf       |-> Cardinality({k \in DOMAIN ps : ps[k].has_pdf}),
     top_failure_mode     |-> IF Len(keys.failure_mode_stats) # 0
                              THEN MaxByTotal(FailurePairs(keys.failure_mode_stats, fstats))
                              ELSE None,
     top_model            |-> IF Len(keys.model_stats) # 0
                              THEN MaxByTotal(ModelPairs(keys.model_stats, mstats))
                              ELSE None]

---------------------------------------------------------------------------
(* generate_site.py: extractors and the thread loop *)

MODEL_PATTERNS ==
  <<
    << <<L("chatgpt"), Star(SepClass), Opt(<<L("o")>>), Opt(<<One(CharSet({"1", "2", "3", "4"}))>>), Star(SepClass), Opt(<<Alt(<< <<L("mini")>>, <<L("pro")>>, <<L("plus")>> >>)>>), Opt(<<Star(SepClass), L("thinking")>>)>>,
       "ChatGPT" >>,
    << <<L("gpt"), Star(SepClass), One(CharSet({"4", "5"})), Star(CharSet(DigitSet \cup {"."})), Opt(<<Star(SepClass), L("o")>>), Opt(<<Alt(<< <<Star(SepClass), L("mini")>>, <<L("turbo")>>, <<L("thinking")>> >>)>>)>>,
       "GPT" >>,
    << <<L("chatgpt"), Star(SepClass), One(CharSet({"4", "5"})), Star(CharSet(DigitSet \cup {"."})), Opt(<<Star(SepClass), L("thinking")>>)>>,
       "ChatGPT" >>,
    << <<L("o"), One(CharSet({"1", "2", "3", "4"})), Opt(<<Star(SepClass), Alt(<< <<L("mini")>>, <<L("pro")>>, <<L("preview")>> >>)>>)>>,
       "OpenAI o1/o3" >>,
    << <<L("claude"), Star(SepClass), Opt(<<Alt(<< <<L("sonnet")>>, <<L("opus")>>, <<L("haiku")>> >>)>>), Star(SepClass), Opt(<<One(CharSet({"3", "4"}))>>), Star(CharSet(DigitSet \cup {"."})), Opt(<<Star(SepClass), L("thinking")>>)>>,
       "Claude" >>,
    << <<L("sonnet"), Star(SepClass), Opt(<<One(CharSet({"3", "4"}))>>), Star(CharSet(DigitSet \cup {"."}))>>,
       "Claude" >>,
    << <<L("opus"), Star(SepClass), Opt(<<One(CharSet({"3", "4"}))>>), Star(CharSet(DigitSet \cup {"."}))>>,
       "Claude" >>,
    << <<L("claude"), Star(SepClass), L("code")>>,
       "Claude Code" >>,
    << <<L("gemini"), Star(SepClass), Opt(<<Alt(<< <<L("pro")>>, <<L("ultra")>>, <<L("flash")>>, <<L("advanced")>> >>)>>), Star(SepClass), Opt(<<One(CharSet({"1", "2", "3"}))>>), Star(CharSet(DigitSet \cup {"."}))>>,
       "Gemini" >>,
    << <<L("bard")>>,
       "Gemini" >>,
    << <<L("deep"), Star(SepClass), L("seek"), Star(SepClass), Opt(<<L("v"), Plus(CharSet(DigitSet \cup {"."}))>>), Opt(<<Star(SepClass), Alt(<< <<L("coder")>>, <<L("r1")>> >>)>>)>>,
       "DeepSeek" >>,
    << <<L("deepseek"), Star(SepClass), Opt(<<L("v"), Plus(CharSet(DigitSet \cup {"."}))>>), Opt(<<Star(SepClass), Alt(<< <<L("coder")>>, <<L("r1")>> >>)>>)>>,
       "DeepSeek" >>,
    << <<L("cursor"), Opt(<<Star(SepClass), Alt(<< <<L("composer")>>, <<L("agent")>> >>)>>)>>,
       "Cursor" >>,
    << <<L("windsurf"), Opt(<<Star(SepClass), L("swe"), Star(SepClass), Star(DigitClass)>>)>>,
       "Windsurf" >>,
    << <<L("composer"), Opt(<<Star(SepClass), L("model")>>), Opt(<<Star(SepClass), Plus(DigitClass)>>)>>,
       "Cursor" >>,
    << <<L("codex"), Star(SepClass), Opt(<<One(CharSet({"1", "2", "3", "4", "5"}))>>), Star(CharSet(DigitSet \cup {"."})), Opt(<<Star(SepClass), Alt(<< <<L("high")>>, <<L("low")>>, <<L("medium")>> >>)>>)>>,
       "Codex" >>,
    << <<L("qwen"), Star(SepClass), Opt(<<One(CharSet({"1", "2", "3"}))>>), Star(CharSet(DigitSet \cup {"."})), Opt(<<Star(SepClass), Alt(<< <<L("max")>>, <<L("plus")>>, <<L("turbo")>> >>)>>), Opt(<<Star(SepClass), L("thinking")>>)>>,
       "Qwen" >>,
    << <<L("perplexity"), Opt(<<Star(SepClass), Alt(<< <<L("pro")>>, <<L("sonar")>> >>)>>)>>,
       "Perplexity" >>,
    << <<L("mistral"), Opt(<<Star(SepClass), Alt(<< <<L("large")>>, <<L("medium")>>, <<L("small")>>, <<L("nemo")>> >>)>>)>>,
       "Mistral" >>,
    << <<L("mixtral")>>,
       "Mistral" >>,
    << <<L("codestral")>>,
       "Mistral" >>,
    << <<L("le"), Star(SepClass), L("chat")>>,
       "Mistral" >>,
    << <<L("llama"), Star(SepClass), Opt(<<One(CharSet({"1", "2", "3", "4"}))>>), Star(CharSet(DigitSet \cup {"."}))>>,
       "Llama" >>,
    << <<L("meta"), Star(SepClass), L("ai")>>,
       "Llama" >>,
    << <<L("github"), Star(SepClass), L("copilot")>>,
       "Copilot" >>,
    << <<L("copilot")>>,
       "Copilot" >>,
    << <<L("grok"), Star(SepClass), Opt(<<One(CharSet({"1", "2", "3"}))>>)>>,
       "Grok" >>,
    << <<L("cohere"), Star(SepClass), Opt(<<L("command")>>)>>,
       "Cohere" >>,
    << <<L("anthropic")>>,
       "Claude" >>,
    << <<L("openai")>>,
       "OpenAI" >>,
    << <<L("google"), Star(SepClass), L("ai"), Star(SepClass), L("studio")>>,
       "Gemini" >>,
    << <<L("aider")>>,
       "Aider" >>,
    << <<L("cline")>>,
       "Cline" >>,
    << <<L("replit"), Star(SepClass), Opt(<<Alt(<< <<L("agent")>>, <<L("ai")>> >>)>>)>>,
       "Replit" >>
  >>

RECURSIVE site_ScanRules(_, _)
\* for pattern, model_name in MODEL_PATTERNS: the first rule found wins
site_ScanRules(i, text) ==
    IF i > Len(MODEL_PATTERNS) THEN "Unknown"
    ELSE IF SearchIgnoreCase(MODEL_PATTERNS[i][1], text) THEN MODEL_PATTERNS[i][2]
    ELSE site_ScanRules(i + 1, text)

\* text = f"{title} {content}".lower()
site_extract_model(t, c) == site_ScanRules(1, lower(ModelText(t, c)))

\* one findall over  f"{title} {content}"  with HW_PATTERN
site_extract_homework(t, c) ==
    OrUnknown(HwLoop(HwFindAll(lower(ModelText(t, c)))))

\* failure_keywords, in the insertion order of the dict
failure_keywords ==
  <<
    [id |-> "hallucination",
     keywords |-> << "hallucinate", "hallucination", "made up", "fabricate",
                     "incorrect fact" >>],
    [id |-> "context_loss",
     keywords |-> << "lost context", "forgot", "context window", "lost track",
                     "context limit" >>],
    [id |-> "wrong_algorithm",
     keywords |-> << "wrong algorithm", "misunderstood", "wrong approach",
                     "misinterpreted" >>],
    [id |-> "syntax_error",
     keywords |-> << "syntax error", "syntactically incorrect", "typo",
                     "missing bracket" >>],
    [id |-> "api_confusion",
     keywords |-> << "wrong api", "api confusion", "wrong function", "wrong library",
                     "imported function" >>],
    [id |-> "off_topic",
     keywords |-> << "off topic", "unrelated", "tangent", "missed the point" >>],
    [id |-> "incomplete",
     keywords |-> << "incomplete", "unfinished", "partial", "missing part" >>],
    [id |-> "overcomplicated",
     keywords |-> << "overcomplicated", "over-engineered", "too complex",
                     "unnecessarily complex" >>],
    [id |-> "wrong_dimensions",
     keywords |-> << "wrong dimension", "shape error", "dimension mismatch",
                     "broadcasting" >>],
    [id |-> "numerical_error",
     keywords |-> << "numerical error", "precision", "floating point",
                     "numerical instability" >>]
  >>

\* some keyword of the list is a substring of the text
AnySubstring(keywords, content_lower) ==
    \E n \in DOMAIN keywords : Contains(content_lower, keywords[n])

RECURSIVE site_ScanFailures(_, _)
site_ScanFailures(i, content_lower) ==
    IF i > Len(failure_keywords) THEN << >>
    ELSE (IF AnySubstring(failure_keywords[i].keywords, content_lower)
            THEN << failure_keywords[i].id >> ELSE << >>)
         \o site_ScanFailures(i + 1, content_lower)

site_extract_failure_modes(c) == site_ScanFailures(1, lower(c))

success_indicators ==
    << "one-shot", "one shot", "correctly", "succeeded", "worked well",
       "was able to", "impressive", "correct answer", "passed all tests",
       "zero-shot", "nailed", "spot on", "performed well" >>
site_failure_indicators ==
    << "failed", "struggled", "incorrect", "wrong", "error", "bug",
       "did not work", "couldn't", "unable to", "mistake" >>
site_partial_indicators ==
    << "eventually", "after", "with some", "needed help", "required",
       "with guidance", "minor", "mostly" >>

\* sum(1 for ind in indicators if ind in content_lower)
Count(indicators, content_lower) ==
    Cardinality({n \in DOMAIN indicators : Contains(content_lower, indicators[n])})

site_analyze_outcome(c) ==
    LET success_count == Count(success_indicators, lower(c))
        failure_count == Count(site_failure_indicators, lower(c))
        partial_count == Count(site_partial_indicators, lower(c))
    IN  IF failure_count > success_count THEN "failed"
        ELSE IF partial_count > 0 /\ failure_count > 0 THEN "partial"
        ELSE IF success_count > 0 THEN "success"
        ELSE "unknown"

RECURSIVE TextNodes(_, _)
\* the text nodes of a document, in order: what stands between the tags
TextNodes(doc, i) ==
    IF i > Len(doc) THEN << >>
    ELSE LET lts  == {n \in i..Len(doc) : CharAt(doc, n) = "<"}
             stop == IF lts = {} THEN Len(doc) + 1 ELSE SetMin(lts)
             gts  == {n \in stop..Len(doc) : CharAt(doc, n) = ">"}
             next == IF gts = {} THEN Len(doc) + 1 ELSE SetMin(gts) + 1
             node == SubSeq(doc, i, stop - 1)
         IN  (IF node = "" THEN << >> ELSE << node >>) \o TextNodes(doc, next)

RECURSIVE JoinStripped(_)
\* get_text(separator='\n', strip=True): every node stripped, the empty ones
\* dropped, the rest joined by newlines
JoinStripped(nodes) ==
    IF Len(nodes) = 0 THEN ""
    ELSE LET head == strip(Head(nodes))
             rest == JoinStripped(Tail(nodes))
         IN  IF head = "" THEN rest
             ELSE IF rest = "" THEN head
             ELSE head \o "\n" \o rest

parse_thread_content(raw) ==
    IF raw = "" THEN "" ELSE JoinStripped(TextNodes(raw, 1))

\* thread.get(key): NoValue when the thread has no such key
ThreadGet(thread, key) == IF key \in DOMAIN thread THEN thread[key] ELSE NoValue

\* thread.get('document') or thread.get('content') or ''
RawContent(thread) ==
    IF ThreadGet(thread, "document") \notin {NoValue, ""} THEN thread.document
    ELSE IF ThreadGet(thread, "content") \notin {NoValue, ""} THEN thread.content
    ELSE ""

\* the record appended to processed_threads for a thread of title t and
\* parsed content c (author, date and the comment and vote counts are copied
\* from the thread and are left out)
ProcessedAs(t, c) ==
    [title         |-> t,
     content       |-> c,
     model         |-> site_extract_model(t, c),
     homework      |-> site_extract_homework(t, c),
     failure_modes |-> site_extract_failure_modes(c),
     outcome       |-> site_analyze_outcome(c)]

\* title = thread.get('title', 'Untitled'); content = parse_thread_content(...)
Processed(thread) ==
    ProcessedAs(IF "title" \in DOMAIN thread THEN thread.title ELSE "Untitled",
                parse_thread_content(RawContent(thread)))

\* the default value of model_stats and hw_stats in generate_static_website
NewSiteBucket ==
    [total |-> 0, success |-> 0, partial |-> 0, failed |-> 0, unknown |-> 0]

\* stats[key]['total'] += 1; stats[key][outcome] += 1
SiteStatsAfter(stats, key, outcome) ==
    LET b0 == Get(stats, key, NewSiteBucket)
        b1 == [b0 EXCEPT !.total = @ + 1]
        b2 == [b1 EXCEPT ![outcome] = @ + 1]
    IN  Put(stats, key, b2)

---------------------------------------------------------------------------
(* Harness for the extractors: the inputs are drawn from bounded sets and   *)
(* the extractor under study is applied once.                              *)

\* the state of the scripts that are not running
ZeroCounts == [existing |-> 0, downloaded |-> 0, skipped |-> 0, failed |-> 0]
LoadIdle == extractions = << >> /\ files = EmptyMap
PageIdle == page = 0 /\ seen_ids = {} /\ all_threads = << >>
PoolIdle == tasks = << >> /\ worker = << >> /\ counts = ZeroCounts
ToolIdle == LoadIdle /\ PageIdle /\ PoolIdle

PipelineIdle ==
    /\ posts = << >>
    /\ pdf_content_map = EmptyMap
    /\ idx = 0
    /\ enriched_posts = << >>
    /\ model_stats = EmptyMap
    /\ hw_stats = EmptyMap
    /\ failure_mode_stats = EmptyMap
    /\ stats_keys = NoKeys
    /\ summary = NoValue
    /\ error = NoValue
    /\ threads = << >>
    /\ processed_threads = << >>
    /\ models = {}
    /\ homeworks = {}
    /\ failure_mode_counts = EmptyMap
    /\ ToolIdle

ModelTitles == {"", "HW3: GPT", "Claude"}
ModelContents ==
    {"chatgpt 5.1 pro", "chatgpt 5.1 thinking", "chatgpt 5.1 extended thinking",
     "chatgpt 5.1 standard", "chatgpt 5.1", "gpt 5.1 pro",
     "gpt 5.1 thinking", "gpt 5.1", "gpt 5 pro",
     "gpt 5 thinking", "chatgpt 5", "gpt 5",
     "chatgpt", "codex 5.1 high", "codex 5.1",
     "codex", "claude code opus 4.5", "claude code with opus 4.5",
     "claude opus 4.5 thinking", "claude opus 4.5 extended thinking", "opus 4.5 thinking",
     "opus 4.5 extended thinking", "claude opus 4.5", "opus 4.5",
     "claude sonnet 4.5", "sonnet 4.5", "haiku 4.5",
     "claude code", "claude", "gemini pro 3",
     "gemini thinking with pro 3", "gemini 3 pro", "gemini pro 2.5",
     "gemini 2.5 pro", "google ai studio then gemini 2.5 pro", "gemini pro",
     "gemini collb", "gemini in collab", "gemini",
     "deepseek v3.2", "deep seek v3.2", "deepseek r1",
     "deep seek", "deepseek", "cursor agent",
     "cursor auto agent", "cursor composer", "cursor opus 4.5",
     "cursor (opus 4.5)", "cursor", "windsurf swe 1",
     "windsurf", "qwen3 max", "qwen 3 max",
     "qwen", "mistral le chat", "mistral ai's le chat",
     "mistral ai", "mistral", "grok 4.1",
     "grok fast mode", "grok with fast mode", "gork",
     "grok", "kimi k2", "kimi 1.5",
     "kimi", "perplexity pro", "perplexity",
     "llama 4 maverick", "llama", "seed 1.6",
     "aider", "cline", "replit",
     "", "nothing about any tool here", "we compare gpt-5 with gpt-5.1 pro",
     "gpt-5.1 pro beats gpt-5", "chatgpt-5.1 pro and gpt-5", "GPT-5.1 Pro vs GPT-5",
     "5.1 pro review", "Cursor (Opus 4.5)", "cursor opus-4.5",
     "Deep-Seek", "code opus 4.5", "google ai studio\ngemini 2.5 pro",
     "gemini then claude", "replit and chatgpt", "gpt\n5",
     "gpt_5", "opus 4x5"}

InitModel ==
    /\ pc = "model"
    /\ title \in ModelTitles
    /\ content \in ModelContents
    /\ out = NoValue
    /\ PipelineIdle

DoExtractModel ==
    /\ pc = "model"
    /\ out' = extract_model(title, content)
    /\ pc' = "model_done"
    /\ UNCHANGED << title, content, pipeVars >>

NextModel == DoExtractModel

SpecModel == InitModel /\ [][NextModel]_vars

HwTitles ==
    {"", "HW3 notes", "hw03", "HW-3", "homework_003", "hw3", "hw0", "hw00",
     "Homework 12: thoughts", "hw030 then hw4", "no number hw", "hw x homework5 hw3",
     "HW 0 3", "hw007bond", "shw9", "hw\n2", "hw--__ 05", "homework", "notes hw"}
HwContents ==
    {"", "mentions HW7 elsewhere", "homework 02 and hw5", "nothing", "3 is fun",
     "see Homework-10 and hw1"}

InitHw ==
    /\ pc = "homework"
    /\ title \in HwTitles
    /\ content \in HwContents
    /\ out = NoValue
    /\ PipelineIdle

DoExtractHomework ==
    /\ pc = "homework"
    /\ out' = extract_homework(title, content)
    /\ pc' = "homework_done"
    /\ UNCHANGED << title, content, pipeVars >>

NextHw == DoExtractHomework

SpecHw == InitHw /\ [][NextHw]_vars

\* Input texts for analyze_outcome.  The shortest text an indicator pattern
\* matches: its literals, one space for each .*
RECURSIVE Exemplar(_)
Exemplar(p) ==
    IF Len(p) = 0 THEN ""
    ELSE (IF Head(p).k = "lit" THEN Head(p).s ELSE " ") \o Exemplar(Tail(p))

RECURSIVE Lines(_, _)
\* one line for each of the first n indicators of the list
Lines(indicators, n) ==
    IF n = 0 THEN ""
    ELSE Lines(indicators, n - 1) \o Exemplar(indicators[n]) \o "\n"

MaxSuccess == 3
MaxPartial == 4
MaxFailure == 6

GridText(s, p, f) ==
    Lines(strong_success, s) \o Lines(partial_indicators, p) \o Lines(failure_indicators, f)

GridTexts ==
    {GridText(s, p, f) : s \in 0..MaxSuccess, p \in 0..MaxPartial, f \in 0..MaxFailure}

\* a text that consists of one occurrence of one strong-success keyword
SingleKeywordTexts == {Exemplar(strong_success[i]) : i \in DOMAIN strong_success}

OutcomeContents ==
    GridTexts \cup SingleKeywordTexts
    \cup {"EXCELLENT work, Flawless", "it failed", "all of it\ncorrect",
          "Mostly wrong, eventually all answers correct"}

InitOutcome ==
    /\ pc = "outcome"
    /\ title = ""
    /\ content \in OutcomeContents
    /\ out = NoValue
    /\ PipelineIdle

DoAnalyzeOutcome ==
    /\ pc = "outcome"
    /\ out' = analyze_outcome(content)
    /\ pc' = "outcome_done"
    /\ UNCHANGED << title, content, pipeVars >>

NextOutcome == DoAnalyzeOutcome

SpecOutcome == InitOutcome /\ [][NextOutcome]_vars

\* Input texts for extract_failure_modes: the exemplar of every keyword of
\* the catalog, and texts that hold several keywords or none
KeywordTexts ==
    UNION {{Exemplar(FAILURE_PATTERNS[i].keywords[n]) :
              n \in DOMAIN FAILURE_PATTERNS[i].keywords} : i \in DOMAIN FAILURE_PATTERNS}

FailureContents ==
    KeywordTexts
    \cup {"", "nothing to report",
          "It Hallucinated and made up an API, then FORGOT the shape error.",
          "RuntimeError: size mismatch", "too verbose, chatty and overcomplicated",
          "wrong\ndimension", "claims it is\nnot true",
          "RUNTIMEERROR: DIMENSION OUT OF RANGE", "Runtimeerror in the loop",
          "The Model Was Too VERBOSE"}

InitFailure ==
    /\ pc = "failure"
    /\ title = ""
    /\ content \in FailureContents
    /\ out = NoValue
    /\ PipelineIdle

DoExtractFailureModes ==
    /\ pc = "failure"
    /\ out' = extract_failure_modes(content)
    /\ pc' = "failure_done"
    /\ UNCHANGED << title, content, pipeVars >>

NextFailure == DoExtractFailureModes

SpecFailure == InitFailure /\ [][NextFailure]_vars

\* Input texts for extract_key_observations.
\* A labelled phrase: a word of one of the three families, a separator, a body
PhraseWords ==
    {"Strength", "worked well", "correctly", "one-shot", "Weakness", "error",
     "bug", "wrong", "note", "Fixed", "[annotation]"}
PhraseTexts ==
    {w \o sep \o body :
        w \in PhraseWords, sep \in {": ", " ", ":"},
        body \in {"the chain rule was applied in every part.", "short.",
                  "no terminator at the end"}}

TwoDigits(i) == IF i < 10 THEN "0" \o ToString(i) ELSE ToString(i)

RECURSIVE BulletLines(_, _, _, _, _)
\* lines lo..hi of a list: a mark, then text that holds the number of the line
BulletLines(mark, before, after, lo, hi) ==
    IF lo = hi THEN mark \o before \o TwoDigits(lo) \o after
    ELSE BulletLines(mark, before, after, lo, (lo + hi) \div 2) \o "\n"
         \o BulletLines(mark, before, after, (lo + hi) \div 2 + 1, hi)

MaxBullets == 25

\* the three styles of bullet_patterns
Marks == {"* ", "- ", "1. "}

\* MaxBullets bullet lines, no two with the same first 50 characters, each with
\* a classification word and no labelled phrase
DistinctBullets ==
    {BulletLines(mark, "item ", " was good enough", 1, MaxBullets) : mark \in Marks}
    \cup {BulletLines("- ", "item ", " did fail in the end", 1, MaxBullets)}

\* the same without a classification word
PlainBullets == {BulletLines("- ", "item ", " has nothing in it", 1, MaxBullets)}

\* MaxBullets bullet lines that differ only after the 60th character; with a
\* classification word, without one, and with "fix" (inside "prefix") as well
SameOpening == "the same long opening that went well for sixty characters and "
SameOpeningPlain == "the same long opening that goes on for sixty characters and "
SamePrefixFix == "the same long prefix that went well for sixty characters and "
SamePrefixBullets ==
    {BulletLines(mark, SameOpening, "", 1, MaxBullets) : mark \in {"* ", "- "}}
SamePrefixPlain == {BulletLines("- ", SameOpeningPlain, "", 1, MaxBullets)}
SamePrefixLabelled == {BulletLines("- ", SamePrefixFix, "", 1, MaxBullets)}

RECURSIVE Sentences(_, _, _)
\* for each of the words lo..hi, four sentences that start with it
Sentences(words, lo, hi) ==
    IF lo = hi
    THEN BulletLines(words[lo] \o " part " \o TwoDigits(lo) \o " of sheet ", "", ". ", 1, 4)
    ELSE Sentences(words, lo, (lo + hi) \div 2) \o "\n"
         \o Sentences(words, (lo + hi) \div 2 + 1, hi)

\* more than 20 distinct observations, then one that two families find
ManyPhrases ==
    Sentences(<< "Strength:", "Worked well:", "Nailed", "Perfectly", "Weakness:",
                 "Struggled with:", "Failed to", "Confused" >>, 1, 8)
    \o "\nIncorrectly solved the third part of the sheet."

ObsSpecialTexts ==
    {"", "nothing to report", ManyPhrases,
     "Strengths: it handled the convolution shapes well. Weakness: it forgot the bias term!",
     "strength: .", "It one-shotted the whole problem set. Then one shot. one-shot",
     "[Annotation]: check the sign of this term\nComment: too verbose here\nnote: ok\nFixed: the loop bound was off by one. Issue: none",
     "* The model got the shapes correct at once\n- wrong sign in the second derivative term\n1. Proper use of the chain rule all along\n2) nothing classified in this line at all",
     "-                         bug", "- wrong                    ",
     "Error: the error message was wrong again. - error: the error message was wrong again.",
     "@ well\n# properly done in all of the cases\n$ short\n% a failure to converge was seen\n& bugs everywhere in the code here",
     "~ the en dash line had an issue here\n= the em dash line was incorrect too\n-- not a dash line but wrong anyway",
     "\n\n  - the result was wrong in every case here",
     "- good aaaaaaaaaaaaaaaaaaaaaaaaaaaaaaaaaaaaaaaaaaaaaaaaaaaaaaaaaaaaaaaaaaaaaaaaaaaaaaaaaaaaaaaaaaaaaaaaaaaaaaaaaaaaaaaaaaaaaaaaaaaaaaaaaaaaaaaaaaaaaaaaaaaaaaaaaaaaaaaaaaaaaaaaaaaaaaaaaaaaaaaaaaaaaaaaaaaaaaaaaaaaaaaaaaaaaaaaaaaaaaaaa",
     "Strength: aaaaaaaaaaaaaaaaaaaaaaaaaaaaaaaaaaaaaaaaaaaaaaaaaaaaaaaaaaaaaaaaaaaaaaaaaaaaaaaaaaaaaaaaaaaaaaaaaaaaaaaaaaaaaaaaaaaaaaaaaaaaaaaaaaaaaaaaaaaaaaaaaaaaaaaaaaaaaaaaaaaaaaaaaaaaaaaaaaaaaaaaaaaaaaaaaaaaaaaaaaaaaaaaaaaaaaaaaaaaaaaaaaaaaa."}

\* one list line whose last word is the only classification word in it
OneWordBullets ==
    {mark \o "item two of the list had " \o StrengthWords[k] :
        mark \in {"- "}, k \in DOMAIN StrengthWords}
    \cup {mark \o "item two of the list had " \o WeaknessWords[k] :
            mark \in Marks, k \in DOMAIN WeaknessWords}

\* matches that are too short, as many as the loop takes, then a long one
ShortThenLong ==
    {"Strength: short. Strength: no. Strength: ok. Strength: the chain rule was applied in every part.",
     "Wrong a. wrong b. wrong c. wrong sign in the second derivative term.",
     "note: a\nnote: b\nnote: c\nnote: d\nnote: e\nnote: the sixth note is long enough"}

ObsContents ==
    PhraseTexts \cup ObsSpecialTexts \cup DistinctBullets \cup PlainBullets
    \cup ShortThenLong
    \cup OneWordBullets
    \cup SamePrefixBullets \cup SamePrefixPlain \cup SamePrefixLabelled

InitObs ==
    /\ pc = "observations"
    /\ title = ""
    /\ content \in ObsContents
    /\ out = NoValue
    /\ PipelineIdle

\* the call extract_key_observations(content); out keeps the list before the
\* deduplication next to the list returned
DoExtractObservations ==
    /\ pc = "observations"
    /\ out' = ObservationLists(Candidates(content, lower(content)))
    /\ pc' = "observations_done"
    /\ UNCHANGED << title, content, pipeVars >>

NextObs == DoExtractObservations

SpecObs == InitObs /\ [][NextObs]_vars

---------------------------------------------------------------------------
(* The script: load, enrich every post, fold every enriched post *)

RawPosts ==
    { [id |-> 1, title |-> "HW3: GPT-5.1 Pro", content |-> "One-shot, flawless."],
      [id |-> 2, title |-> "Claude on homework 3",
       content |-> "It hallucinated and failed; wrong dimension."],
      [id |-> 3, title |-> "misc notes", content |-> "nothing to report"] }

\* records of posts_raw.json that lack a field
MalformedPosts ==
    { [id |-> 4, content |-> "Claude failed on hw 2"],
      [id |-> 5, title |-> "HW1: Gemini"] }

PdfMaps ==
    { EmptyMap,
      [i \in {1, 3} |->
          IF i = 1 THEN ""
          ELSE "gpt-5.1 pro hallucinated and was too verbose on hw 7, eventually fine"] }

MaxPosts == 3

RECURSIVE SeqsUpTo(_, _)
\* the sequences over S of length at most n
SeqsUpTo(S, n) ==
    IF n = 0 THEN { << >> }
    ELSE LET shorter == SeqsUpTo(S, n - 1)
         IN  shorter \cup {Append(s, x) : s \in shorter, x \in S}

\* threads as the Ed API returns them: a title and an XML document, either
\* of which may be missing
Threads ==
    { [title |-> "Special Participation B: GPT-4o on HW 2",
       document |-> "<document version=\"2.0\"><paragraph>It correctly solved everything.</paragraph><paragraph> Impressive. </paragraph></document>"],
      [document |-> "<document><paragraph>Claude struggled on homework 5: wrong dimension, fixed after hints.</paragraph></document>"],
      [title |-> "Special Participation B: notes", document |-> "",
       content |-> "<document><paragraph>nothing to report</paragraph></document>"] }

MaxThreads == 3

\* analyze_posts.py after its inputs are loaded
InitAnalyze ==
    /\ pc = "enrich"
    /\ posts \in SeqsUpTo(RawPosts \cup MalformedPosts, MaxPosts)
    /\ pdf_content_map \in PdfMaps
    /\ threads = << >>

\* generate_static_website(threads) on entry
InitSite ==
    /\ pc = "site"
    /\ threads \in SeqsUpTo(Threads, MaxThreads)
    /\ posts = << >>
    /\ pdf_content_map = EmptyMap

Init ==
    /\ InitAnalyze \/ InitSite
    /\ idx = 0
    /\ enriched_posts = << >>
    /\ model_stats = EmptyMap
    /\ hw_stats = EmptyMap
    /\ failure_mode_stats = EmptyMap
    /\ stats_keys = NoKeys
    /\ summary = NoValue
    /\ error = NoValue
    /\ processed_threads = << >>
    /\ models = {}
    /\ homeworks = {}
    /\ failure_mode_counts = EmptyMap
    /\ title = ""
    /\ content = ""
    /\ out = NoValue
    /\ ToolIdle

\* one iteration of  for post in posts;  post['title'] and post['content']
\* raise KeyError on a record without the field
EnrichPost ==
    /\ pc = "enrich"
    /\ idx < Len(posts)
    /\ IF {"title", "content"} \subseteq DOMAIN posts[idx + 1]
       THEN /\ enriched_posts' =
                  Append(enriched_posts, Enriched(pdf_content_map, posts[idx + 1]))
            /\ idx' = idx + 1
            /\ UNCHANGED << pc, error >>
       ELSE /\ pc' = "raised"
            /\ error' = "KeyError"
            /\ UNCHANGED << enriched_posts, idx >>
    /\ UNCHANGED << posts, pdf_content_map, model_stats, hw_stats,
                    failure_mode_stats, stats_keys, summary, siteVars, fnVars,
                    toolVars >>

\* the enrichment loop is over; the statistics start empty
EnrichDone ==
    /\ pc = "enrich"
    /\ idx = Len(posts)
    /\ pc' = "fold"
    /\ idx' = 0
    /\ UNCHANGED << posts, pdf_content_map, enriched_posts, model_stats, hw_stats,
                    failure_mode_stats, endVars, siteVars, fnVars,
                    toolVars >>

\* one iteration of  for post in enriched_posts
FoldPost ==
    /\ pc = "fold"
    /\ idx < Len(enriched_posts)
    /\ LET post == enriched_posts[idx + 1]
       IN  /\ model_stats' = ModelStatsAfter(model_stats, post)
           /\ hw_stats' = HwStatsAfter(hw_stats, post)
           /\ failure_mode_stats' =
                  FailureStatsAfter(failure_mode_stats, post.failure_modes, post)
           /\ stats_keys' = KeysAfter(stats_keys, post)
    /\ idx' = idx + 1
    /\ UNCHANGED << pc, posts, pdf_content_map, enriched_posts, summary, error,
                    siteVars, fnVars,
                    toolVars >>

FoldDone ==
    /\ pc = "fold"
    /\ idx = Len(enriched_posts)
    /\ pc' = "stats_done"
    /\ UNCHANGED << posts, pdf_content_map, idx, enriched_posts, model_stats,
                    hw_stats, failure_mode_stats, endVars, siteVars, fnVars,
                    toolVars >>

\* analysis_output is built and written to posts_analyzed.json, unless the
\* evaluation of the summary raises
Summarize ==
    /\ pc = "stats_done"
    /\ \E e \in {SummaryError(enriched_posts, stats_keys, model_stats)} :
          IF e = NoValue
          THEN /\ summary' = Summary(enriched_posts, stats_keys, model_stats,
                                     hw_stats, failure_mode_stats)
               /\ pc' = "done"
               /\ UNCHANGED error
          ELSE /\ error' = e
               /\ pc' = "raised"
               /\ UNCHANGED summary
    /\ UNCHANGED << posts, pdf_content_map, idx, enriched_posts, model_stats,
                    hw_stats, failure_mode_stats, stats_keys, siteVars, fnVars,
                    toolVars >>

\* one iteration of  for thread in threads  in generate_static_website
ProcessThread ==
    /\ pc = "site"
    /\ idx < Len(threads)
    /\ \E p \in {Processed(threads[idx + 1])} :
           /\ models' = models \cup {p.model}
           /\ homeworks' = homeworks \cup {p.homework}
           /\ model_stats' = SiteStatsAfter(model_stats, p.model, p.outcome)
           /\ hw_stats' = SiteStatsAfter(hw_stats, p.homework, p.outcome)
           /\ failure_mode_counts' = IncAll(failure_mode_counts, p.failure_modes)
           /\ processed_threads' = Append(processed_threads, p)
    /\ idx' = idx + 1
    /\ UNCHANGED << pc, threads, posts, pdf_content_map, enriched_posts,
                    failure_mode_stats, endVars, fnVars,
                    toolVars >>

\* the thread loop is over
ThreadsDone ==
    /\ pc = "site"
    /\ idx = Len(threads)
    /\ pc' = "site_done"
    /\ UNCHANGED << idx, threads, posts, pdf_content_map, enriched_posts, model_stats,
                    hw_stats, failure_mode_stats, endVars, processed_threads, models,
                    homeworks, failure_mode_counts, fnVars,
                    toolVars >>

Next ==
    \/ EnrichPost \/ EnrichDone \/ FoldPost \/ FoldDone \/ Summarize
    \/ ProcessThread \/ ThreadsDone

Spec == Init /\ [][Next]_vars

---------------------------------------------------------------------------
(* Properties of the statistics fold (Spec) *)

InSite == pc \in {"site", "site_done"}

\* the posts folded into the statistics so far, in the script that runs
FoldedPosts ==
    IF InSite THEN processed_threads
    ELSE IF pc = "fold" THEN SubSeq(enriched_posts, 1, idx)
    ELSE IF pc \in {"stats_done", "done"} THEN enriched_posts
    ELSE IF pc = "raised" /\ error # "KeyError" THEN enriched_posts
    ELSE << >>

Folded == Len(FoldedPosts)

FoldedWith(field, label) ==
    {k \in 1..Folded : FoldedPosts[k][field] = label}

RECURSIVE SumTotals(_, _)
\* the sum of stats[k].total over the keys of K
SumTotals(stats, K) ==
    IF K = {} THEN 0
    ELSE LET k == CHOOSE x \in K : TRUE
         IN  stats[k].total + SumTotals(stats, K \ {k})

\* C1: after any number k of posts folded the totals of the model buckets sum
\* to k and so do the totals of the homework buckets; each bucket counts the
\* posts that carry its label, "Unknown" included, and no post is skipped.
C1_Conservation ==
    /\ SumTotals(model_stats, DOMAIN model_stats) = Folded
    /\ SumTotals(hw_stats, DOMAIN hw_stats) = Folded
    /\ DOMAIN model_stats = {FoldedPosts[k].model : k \in 1..Folded}
    /\ DOMAIN hw_stats = {FoldedPosts[k].homework : k \in 1..Folded}
    /\ \A m \in DOMAIN model_stats :
          model_stats[m].total = Cardinality(FoldedWith("model", m))
    /\ \A h \in DOMAIN hw_stats :
          hw_stats[h].total = Cardinality(FoldedWith("homework", h))

\* three posts folded, one of them under the literal "Unknown" labels
C1_Witness ==
    /\ pc = "stats_done"
    /\ Len(enriched_posts) = 3
    /\ "Unknown" \in DOMAIN model_stats
    /\ "Unknown" \in DOMAIN hw_stats
    /\ model_stats["Unknown"].total = 1
    /\ Cardinality(DOMAIN model_stats) = 3

OutcomeSum(b) == b.success + b.partial + b.failed + b.unknown

\* C2: in every model bucket and every homework bucket total is the sum of
\* the four outcome counters, each counter being the number of folded posts
\* of the bucket with that outcome.
C2_OutcomePartition ==
    /\ \A m \in DOMAIN model_stats :
          /\ model_stats[m].total = OutcomeSum(model_stats[m])
          /\ \A o \in Outcomes : model_stats[m][o] =
                Cardinality(FoldedWith("model", m) \cap FoldedWith("outcome", o))
    /\ \A h \in DOMAIN hw_stats :
          /\ hw_stats[h].total = OutcomeSum(hw_stats[h])
          /\ \A o \in Outcomes : hw_stats[h][o] =
                Cardinality(FoldedWith("homework", h) \cap FoldedWith("outcome", o))

\* a model bucket and a homework bucket that each hold posts of two outcomes
C2_Witness ==
    /\ pc = "stats_done"
    /\ \E m \in DOMAIN model_stats :
          model_stats[m].success = 1 /\ model_stats[m].partial = 1
    /\ \E h \in DOMAIN hw_stats : hw_stats[h].success = 1 /\ hw_stats[h].failed = 1

---------------------------------------------------------------------------
(* Properties of analyze_outcome (SpecOutcome) *)

\* the six-rule policy, each rule with the negation of the rules before it
Policy(s, p, f) ==
    LET r1 == f > s + 2
        r2 == ~r1 /\ s > 0 /\ p > s
        r3 == ~r1 /\ ~r2 /\ s >= 2
        r4 == ~r1 /\ ~r2 /\ ~r3 /\ p > 0
        r5 == ~r1 /\ ~r2 /\ ~r3 /\ ~r4 /\ f > 0
    IN  CASE r1 -> "failed"
          [] r2 -> "partial"
          [] r3 -> "success"
          [] r4 -> "partial"
          [] r5 -> "failed"
          [] OTHER -> "unknown"

OutcomeDone == pc = "outcome_done"

\* C3: analyze_outcome always returns one of the four outcomes, and it is the
\* value the six-rule priority policy gives for the three distinct-pattern
\* counts of the text, whatever the counts are.
C3_OutcomeIsPolicy ==
    OutcomeDone =>
        /\ out \in Outcomes
        /\ out = Policy(success_score(content), partial_score(content),
                        failure_score(content))

\* two success indicators, more partial ones and a failure count just below
\* the dominance margin: every rule's condition is in play
C3_Witness ==
    /\ OutcomeDone
    /\ success_score(content) = 2
    /\ partial_score(content) = 3
    /\ failure_score(content) = 4
    /\ out = "partial"

\* C4: whenever failure_count > success_count + 2 the outcome is "failed",
\* for every value of partial_count.
C4_FailureDominance ==
    (OutcomeDone /\ failure_score(content) > success_score(content) + 2)
        => out = "failed"

\* 5 failure phrases, 1 success phrase, and more partial phrases than
\* success phrases (rule 2 would say "partial")
C4_Witness ==
    /\ OutcomeDone
    /\ failure_score(content) = 5
    /\ success_score(content) = 1
    /\ partial_score(content) = 4
    /\ out = "failed"

---------------------------------------------------------------------------
(* Properties of extract_model (SpecModel) *)

ModelDone == pc = "model_done"

\* the text extract_model searches, in lower case
SearchedText == lower(ModelText(title, content))

Matching(ft) == {i \in RuleIds : RuleMatches(i, ft)}

\* C6: extract_model returns the label of the first rule in table order that
\* matches the text, "Unknown" exactly when no rule matches; where in the
\* text the matches lie plays no part.
C6_FirstRuleInTableOrder ==
    ModelDone =>
        LET M == Matching(SearchedText)
        IN  /\ (M = {}) <=> (out = "Unknown")
            /\ M # {} => out = model_patterns[SetMin(M)][2]

\* the winning rule matches further right in the text than another rule
\* that matches too
C6_Witness ==
    /\ ModelDone
    /\ \E i, j \in Matching(SearchedText) :
          /\ i < j
          /\ MatchStart(j, SearchedText) < MatchStart(i, SearchedText)
          /\ out = model_patterns[i][2]
          /\ out # model_patterns[j][2]

HasBothGpt ==
    /\ Contains(SearchedText, "gpt-5.1 pro")
    /\ Contains(SearchedText, "gpt-5")

\* C7 as stated: every text that contains both "gpt-5.1 pro" and "gpt-5" is
\* labelled "GPT 5.1 Pro".
C7_AlwaysGpt51Pro ==
    (ModelDone /\ HasBothGpt) => out = "GPT 5.1 Pro"

ChatGpt51 == << L("chatgpt"), Star(SepClass), L("5.1") >>

\* C7 amended: every text that contains both "gpt-5.1 pro" and "gpt-5" is never
\* labelled "GPT 5"; it is labelled "GPT 5.1 Pro" unless a ChatGPT 5.1 rule, listed
\* earlier, matches the text, and then it carries that rule's label.
C7_NeverGpt5 ==
    (ModelDone /\ HasBothGpt) =>
        /\ out # "GPT 5"
        /\ IF Search(ChatGpt51, SearchedText)
              THEN out \in {"ChatGPT 5.1 Pro", "ChatGPT 5.1 Thinking", "ChatGPT 5.1"}
              ELSE out = "GPT 5.1 Pro"

\* "gpt-5" stands in the text before "gpt-5.1 pro"
C7_Witness ==
    /\ ModelDone
    /\ content = "we compare gpt-5 with gpt-5.1 pro"
    /\ HasBothGpt
    /\ out = "GPT 5.1 Pro"

\* every text the harness can build, as extract_model searches it
ModelTexts == {lower(ModelText(t, c)) : t \in ModelTitles, c \in ModelContents}

MatchedTexts == [i \in RuleIds |-> {x \in ModelTexts : RuleMatches(i, x)}]

\* rule a is more specific than rule b: whatever a matches, b matches too
MoreSpecific(a, b) == a # b /\ MatchedTexts[a] \subseteq MatchedTexts[b]

\* C8: the table lists the more specific rule first: of two rules that match
\* a text, the more specific one stands earlier in the table, and a rule that
\* is more specific than every other rule matching the text is the winner, so
\* that every rule and every label wins some text.
C8_MostSpecificRuleWins ==
    ModelDone =>
        LET M == Matching(SearchedText)
        IN  /\ \A a, b \in M : MoreSpecific(a, b) => a < b
            /\ \A a \in M : (\A b \in M \ {a} : MoreSpecific(a, b))
                               => out = model_patterns[a][2]

---------------------------------------------------------------------------
(* Properties of extract_homework (SpecHw) *)

HwDone == pc = "homework_done"

\* a homework mention: hw or homework, separators, at least one digit
Mention(n) == << L(HwWords[n]), Star(HwSepClass), Plus(DigitClass) >>

MentionStarts(ft) ==
    {i \in 1..Len(ft) : \E n \in DOMAIN HwWords : Ends(Mention(n), ft, {i}) # {}}

\* the digits that follow the word and its separators in the mention at i
MentionDigits(ft, i) ==
    LET n == CHOOSE k \in DOMAIN HwWords : Ends(Mention(k), ft, {i}) # {}
        j == SetMax(Runs(HwSepClass, ft, i + Len(HwWords[n])))
    IN  SubSeq(ft, j, SetMax(Runs(DigitClass, ft, j)) - 1)

FirstMentionLabel(ft) ==
    "HW" \o ToString(int(MentionDigits(ft, SetMin(MentionStarts(ft)))))

\* C9: the leftmost mention of the title decides whatever the content holds;
\* the content is used only when the title has no mention, and then its
\* leftmost mention decides; "Unknown" only when neither has a mention.
C9_TitleFirst ==
    HwDone =>
        out = IF MentionStarts(lower(title)) # {} THEN FirstMentionLabel(lower(title))
              ELSE IF MentionStarts(lower(content)) # {}
                   THEN FirstMentionLabel(lower(content))
              ELSE "Unknown"

C9_Witness ==
    /\ HwDone
    /\ title = "HW3 notes"
    /\ content = "mentions HW7 elsewhere"
    /\ out = "HW3"

\* a decimal numeral without leading zeros
IsNumeral(s) ==
    /\ Len(s) >= 1
    /\ \A k \in 1..Len(s) : InClass(CharAt(s, k), DigitClass)
    /\ Len(s) > 1 => CharAt(s, 1) # "0"

\* C10: the result is "Unknown" or "HW<N>", N written without leading zeros
\* and equal to the value of the digits of a mention; hw03, HW-3,
\* homework_003 and hw3 give HW3, hw0 and hw00 give HW0.
C10_LabelForm ==
    HwDone =>
        /\ \/ out = "Unknown"
           \/ /\ SubSeq(out, 1, 2) = "HW"
              /\ IsNumeral(SubSeq(out, 3, Len(out)))
              /\ \E x \in {lower(title), lower(content)} : \E i \in MentionStarts(x) :
                    int(MentionDigits(x, i)) = int(SubSeq(out, 3, Len(out)))
        /\ title \in {"hw03", "HW-3", "homework_003", "hw3"} => out = "HW3"
        /\ title \in {"hw0", "hw00"} => out = "HW0"

C10_Witness ==
    /\ HwDone
    /\ title = "hw00"
    /\ out = "HW0"

---------------------------------------------------------------------------
(* Properties of extract_failure_modes (SpecFailure) *)

FailureDone == pc = "failure_done"

\* the keywords of catalog entry i that are found in the lowered text
KeywordsFound(i, c) ==
    {n \in DOMAIN FAILURE_PATTERNS[i].keywords :
        Search(FAILURE_PATTERNS[i].keywords[n], lower(c))}

\* C11: the result holds the id of a catalog entry if and only if one of the
\* entry's keyword patterns is found in the lowered text, and holds no id
\* twice, however many keywords of the entry are found.
C11_ExactlyTheMatchingModes ==
    FailureDone =>
        /\ \A i \in DOMAIN FAILURE_PATTERNS :
              (KeywordsFound(i, content) # {})
                 <=> (\E k \in DOMAIN out : out[k] = FAILURE_PATTERNS[i].id)
        /\ \A k \in DOMAIN out : \E i \in DOMAIN FAILURE_PATTERNS :
              out[k] = FAILURE_PATTERNS[i].id
        /\ \A j, k \in DOMAIN out : out[j] = out[k] => j = k

\* two modes found, one of them through two of its keywords
C11_Witness ==
    /\ FailureDone
    /\ Len(out) >= 2
    /\ \E i \in DOMAIN FAILURE_PATTERNS : Cardinality(KeywordsFound(i, content)) >= 2

---------------------------------------------------------------------------
(* Properties of the failure-mode statistics (Spec) *)

RECURSIVE SumValues(_, _)
\* the sum of d[k] over the keys of K
SumValues(d, K) ==
    IF K = {} THEN 0
    ELSE LET k == CHOOSE x \in K : TRUE
         IN  d[k] + SumValues(d, K \ {k})

\* the folded posts tagged with failure mode fm
Tagged(fm) == {k \in 1..Folded : fm \in Range(FoldedPosts[k].failure_modes)}

\* C12: in analyze_posts.py, after any number of posts folded, a failure mode
\* has a bucket exactly when a folded post is tagged with it; the bucket's
\* total is the number of folded posts tagged with the mode and equals the
\* sum of its by_model counts and the sum of its by_homework counts.
C12_FailureModeTotals ==
    ~InSite =>
        /\ DOMAIN failure_mode_stats = {fm \in {FAILURE_PATTERNS[i].id : i \in DOMAIN FAILURE_PATTERNS} : Tagged(fm) # {}}
        /\ \A fm \in DOMAIN failure_mode_stats :
              LET b == failure_mode_stats[fm]
              IN  /\ b.total = Cardinality(Tagged(fm))
                  /\ b.total = SumValues(b.by_model, DOMAIN b.by_model)
                  /\ b.total = SumValues(b.by_homework, DOMAIN b.by_homework)
                  /\ \A m \in DOMAIN b.by_model : b.by_model[m] =
                        Cardinality(Tagged(fm) \cap FoldedWith("model", m))

\* three modes have buckets, one of them tagged by two posts of different
\* models, and a folded post carries two modes
C12_Witness ==
    /\ pc = "stats_done"
    /\ Cardinality(DOMAIN failure_mode_stats) >= 3
    /\ \E fm \in DOMAIN failure_mode_stats :
          /\ failure_mode_stats[fm].total = 2
          /\ Cardinality(DOMAIN failure_mode_stats[fm].by_model) = 2
    /\ \E k \in 1..Folded : Len(FoldedPosts[k].failure_modes) >= 2

---------------------------------------------------------------------------
(* The summary: empty corpus, top selections, malformed records *)

\* analyze_posts.py has come to its end, by finishing or by an exception
Ended == pc \in {"done", "raised"}

\* C17: a run on zero posts completes: the success rate is computed without a
\* division by zero and the statistics output is produced.
C17_EmptyCorpusCompletes ==
    (Ended /\ Len(posts) = 0) => (pc = "done" /\ error = NoValue)

\* C18: on a non-empty corpus the top selections never raise: top_failure_mode
\* is None when no post has a failure mode, and top_model is None when no
\* model bucket other than "Unknown" exists.
C18_TopSelectionsNeverRaise ==
    (Ended /\ error # "KeyError" /\ Len(enriched_posts) > 0) =>
        /\ pc = "done"
        /\ (\A k \in DOMAIN enriched_posts : enriched_posts[k].failure_modes = << >>)
              => summary.top_failure_mode = None
        /\ (\A k \in DOMAIN enriched_posts : enriched_posts[k].model = "Unknown")
              => summary.top_model = None

\* C19: a raw post without title or content does not make enrichment raise,
\* and once the enrichment loop is over every raw post has its enriched post.
C19_MalformedRecordIsEnriched ==
    /\ error # "KeyError"
    /\ pc \in {"fold", "stats_done", "done"} => Len(enriched_posts) = Len(posts)

\* the failure modes and the models (other than "Unknown") of the corpus
TaggedModes == UNION {Range(enriched_posts[k].failure_modes) : k \in DOMAIN enriched_posts}
KnownModels == {enriched_posts[k].model : k \in DOMAIN enriched_posts} \ {"Unknown"}

\* the posts that carry a failure mode, a model
PostsTagged(fm) == {k \in DOMAIN enriched_posts : fm \in Range(enriched_posts[k].failure_modes)}
PostsOfModel(m) == {k \in DOMAIN enriched_posts : enriched_posts[k].model = m}

\* when the bucket of a failure mode is created: at the first post that
\* carries it and, within that post, at its place in failure_modes
CreatedAt(fm) ==
    LET k == SetMin(PostsTagged(fm))
        fms == enriched_posts[k].failure_modes
    IN  k * (Len(FAILURE_PATTERNS) + 1) + SetMin({j \in DOMAIN fms : fms[j] = fm})

\* C20: top_failure_mode is the label and total of the failure-mode bucket
\* with the largest total, the one created first among equals; top_model is
\* the name and total of the largest model bucket other than "Unknown", the
\* one created first among equals, however large the "Unknown" bucket is.
C20_TopIsFirstMaximum ==
    pc = "done" =>
        /\ TaggedModes # {} =>
              \E fm \in TaggedModes :
                 /\ summary.top_failure_mode = << LabelOf(fm), Cardinality(PostsTagged(fm)) >>
                 /\ \A g \in TaggedModes \ {fm} :
                       \/ Cardinality(PostsTagged(g)) < Cardinality(PostsTagged(fm))
                       \/ /\ Cardinality(PostsTagged(g)) = Cardinality(PostsTagged(fm))
                          /\ CreatedAt(fm) < CreatedAt(g)
        /\ KnownModels # {} =>
              \E m \in KnownModels :
                 /\ summary.top_model = << m, Cardinality(PostsOfModel(m)) >>
                 /\ \A g \in KnownModels \ {m} :
                       \/ Cardinality(PostsOfModel(g)) < Cardinality(PostsOfModel(m))
                       \/ /\ Cardinality(PostsOfModel(g)) = Cardinality(PostsOfModel(m))
                          /\ SetMin(PostsOfModel(m)) < SetMin(PostsOfModel(g))

\* the "Unknown" bucket is larger than the top model's and two failure modes
\* tie for the top
C20_Witness ==
    /\ pc = "done"
    /\ Cardinality(PostsOfModel("Unknown")) = 2
    /\ summary.top_model = << "Claude", 1 >>
    /\ Cardinality(TaggedModes) = 2
    /\ summary.top_failure_mode[2] = 1

---------------------------------------------------------------------------
(* extract_key_observations: deduplication, cap, text lengths *)

ObsDone == pc = "observations_done"

\* the places of the observations whose key no earlier observation has
FirstOfKey(obs) ==
    {k \in DOMAIN obs : \A j \in 1..(k - 1) : TextKey(obs[j]) # TextKey(obs[k])}

\* the labels in the order of the loops: strength patterns, weakness
\* patterns, annotation patterns, bullets
LabelOrder ==
    [k \in DOMAIN strength_patterns |-> << "strength", strength_patterns[k].label >>]
    \o [k \in DOMAIN weakness_patterns |-> << "weakness", weakness_patterns[k].label >>]
    \o [k \in DOMAIN annotation_patterns |-> << "annotation", annotation_patterns[k].label >>]
    \o << << "strength", "Observation" >>, << "weakness", "Observation" >> >>

\* the place of an observation's loop in that order (both bullet
\* classifications stand for the one bullet loop)
LoopRank(o) ==
    IF o.label = "Observation" THEN Len(LabelOrder)
    ELSE CHOOSE k \in DOMAIN LabelOrder : LabelOrder[k] = << o.type, o.label >>

\* C13: the result is the first 20 survivors of a first-occurrence-wins
\* deduplication of the candidates taken in extraction order: at most 20
\* entries, no two with the same lowercased first 50 characters, the n-th
\* entry being the n-th candidate that is the first of its key; the
\* candidates come family by family, pattern by pattern.
C13_FirstTwentySurvivors ==
    ObsDone =>
      \E firsts \in {FirstOfKey(out.observations)} :
        /\ Len(out.returned) <= 20
        /\ Len(out.returned) < 20 => Len(out.returned) = Cardinality(firsts)
        /\ \A a, b \in DOMAIN out.returned :
              a # b => TextKey(out.returned[a]) # TextKey(out.returned[b])
        /\ \A n \in DOMAIN out.returned :
              \E k \in firsts :
                 /\ Cardinality({j \in firsts : j <= k}) = n
                 /\ out.returned[n] = out.observations[k]
        /\ \A a, b \in DOMAIN out.observations :
              a < b => LoopRank(out.observations[a]) <= LoopRank(out.observations[b])

\* more than 20 candidates are the first of their key, a later duplicate found
\* by another family is dropped, and 20 are returned
C13_Witness ==
    /\ ObsDone
    /\ Cardinality(FirstOfKey(out.observations)) > 20
    /\ Len(out.observations) > Cardinality(FirstOfKey(out.observations))
    /\ Len(out.returned) = 20

\* C14 as stated: MaxBullets distinct bullet lines yield exactly 20
\* observations.
C14_TwentyOfDistinctBullets ==
    (ObsDone /\ content \in DistinctBullets) => Len(out.returned) = 20

\* C14: MaxBullets distinct bullet lines of one style, each with a
\* classification word and no labelled phrase, yield exactly 5 observations,
\* the first five lines: each bullet pattern contributes its first five
\* matches only.
C14_FiveOfDistinctBullets ==
    (ObsDone /\ content \in DistinctBullets) =>
        /\ Len(out.returned) = 5
        /\ \A n \in 1..5 :
              /\ out.returned[n].label = "Observation"
              /\ Contains(content, out.returned[n].text \o "\n")
              /\ Contains(out.returned[n].text, "item " \o TwoDigits(n))

C14_Witness ==
    /\ ObsDone
    /\ content \in DistinctBullets
    /\ Len(out.returned) = 5
    /\ out.returned[5].type = "weakness"

\* the bullet texts that differ only after the 60th character
SamePrefixTexts == SamePrefixBullets \cup SamePrefixPlain \cup SamePrefixLabelled

\* C15 as stated: MaxBullets bullet lines with the same first 50 characters
\* that differ only after the 60th yield exactly 1 observation.
C15_OneOfSamePrefix ==
    (ObsDone /\ content \in SamePrefixTexts) => Len(out.returned) = 1

\* the entries that come from the bullet loop
FromBullets(obs) == {n \in DOMAIN obs : obs[n].label = "Observation"}

\* C15: of MaxBullets bullet lines that differ only after the 60th character
\* the bullet loop leaves exactly 1 observation when the lines hold a
\* classification word and none when they hold none; it is the only
\* observation when the lines hold no labelled phrase, and every labelled
\* phrase in them ("fix" in "prefix") adds observations of its own.
C15_OneBulletWhenClassified ==
    ObsDone =>
      /\ content \in SamePrefixBullets =>
            /\ Len(out.returned) = 1
            /\ out.returned[1].label = "Observation"
            /\ Len(out.observations) = 5
      /\ content \in SamePrefixPlain => Len(out.returned) = 0
      /\ content \in SamePrefixLabelled =>
            /\ Cardinality(FromBullets(out.returned)) = 1
            /\ Len(out.returned) = 6

C15_Witness ==
    /\ ObsDone
    /\ content \in SamePrefixBullets
    /\ Len(out.observations) = 5
    /\ Len(out.returned) = 1
    /\ Len(out.returned[1].text) > 60

\* C16: every observation returned has trimmed text of more than 10
\* characters (more than 5 for type annotation) and of at most 200.
C16_TextLengths ==
    ObsDone =>
      \A n \in DOMAIN out.returned :
         /\ strip(out.returned[n].text) = out.returned[n].text
         /\ Len(out.returned[n].text) <= 200
         /\ Len(out.returned[n].text) >
               (IF out.returned[n].type = "annotation" THEN 5 ELSE 10)

---------------------------------------------------------------------------
(* The content merger *)

\* the supplement of a post: the entry of the map for its id, if any
Supplement(map, id) == IF id \in DOMAIN map THEN map[id] ELSE ""

\* the text the claim gives to the extractors
Merged(txt, supplement) ==
    IF supplement = "" THEN txt
    ELSE txt \o "\n\n--- PDF ANNOTATIONS ---\n" \o supplement

\* the labels of every post under every map, from the merged text
LabelsOfMerged ==
    [map \in PdfMaps |->
       [post \in RawPosts |->
          << extract_model(post.title, Merged(post.content, Supplement(map, post.id))),
             extract_homework(post.title, Merged(post.content, Supplement(map, post.id))),
             extract_failure_modes(Merged(post.content, Supplement(map, post.id))),
             analyze_outcome(Merged(post.content, Supplement(map, post.id))) >>]]

---------------------------------------------------------------------------
(* The counts of the summary *)

RECURSIVE SumOutcome(_, _, _)
\* the sum of stats[k][o] over the keys of K
SumOutcome(stats, K, o) ==
    IF K = {} THEN 0
    ELSE LET k == CHOOSE x \in K : TRUE
         IN  stats[k][o] + SumOutcome(stats, K \ {k}, o)

\* C22: total_posts is the number of enriched posts, total_homeworks the
\* number of distinct homework labels other than "Unknown", total_models the
\* number of distinct model labels, "Unknown" included; the four outcome
\* counts sum to total_posts and each is the sum of that outcome over the
\* model buckets; posts_with_pdf is the number of posts with has_pdf.
C22_SummaryCounts ==
    pc = "done" =>
      /\ summary.total_posts = Len(enriched_posts)
      /\ summary.total_homeworks =
            Cardinality({enriched_posts[k].homework : k \in DOMAIN enriched_posts} \ {"Unknown"})
      /\ summary.total_models =
            Cardinality({enriched_posts[k].model : k \in DOMAIN enriched_posts})
      /\ summary.outcomes["success"] + summary.outcomes["partial"]
            + summary.outcomes["failed"] + summary.outcomes["unknown"] = summary.total_posts
      /\ \A o \in Outcomes :
            summary.outcomes[o] = SumOutcome(model_stats, DOMAIN model_stats, o)
      /\ summary.posts_with_pdf =
            Cardinality({k \in DOMAIN enriched_posts : enriched_posts[k].has_pdf})

\* three models with "Unknown" among them, and one homework next to "Unknown"
C22_Witness ==
    /\ pc = "done"
    /\ summary.total_posts = 3
    /\ summary.total_models = 3
    /\ "Unknown" \in DOMAIN model_stats
    /\ summary.total_homeworks = 1
    /\ DOMAIN hw_stats = {"HW3", "Unknown"}
    /\ summary.outcomes = [success |-> 1, partial |-> 0, failed |-> 1, unknown |-> 1]

---------------------------------------------------------------------------
(* Unknown fallback and purity *)

\* no rule of model_patterns is found in the title and the text, no homework
\* mention in either, and no outcome indicator in the text
NothingMatches(t, ft) ==
    /\ Matching(lower(ModelText(t, ft))) = {}
    /\ MentionStarts(lower(t)) = {}
    /\ MentionStarts(lower(ft)) = {}
    /\ success_score(ft) = 0
    /\ partial_score(ft) = 0
    /\ failure_score(ft) = 0

\* the posts, with the map they are read under, in which nothing matches
Unmatched ==
    {mp \in PdfMaps \X RawPosts :
        NothingMatches(mp[2].title, Merged(mp[2].content, Supplement(mp[1], mp[2].id)))}

---------------------------------------------------------------------------
(* Supplementary text: extract_fast.py writes two files from one list of  *)
(* extractions, analyze_posts.py loads whichever of them it finds          *)

MaxExtractions == 3

AllExtractionsPath == "output/all_extractions.json"
PdfExtractionsPath == "output/pdf_extractions.json"

\* the record extract_fast appends for one PDF with substantial text
Extraction(tid, text) ==
    [thread_id |-> tid, title |-> "Post " \o ToString(tid),
     url |-> "https://static.us.edusercontent.com/files/" \o text,
     content |-> text, char_count |-> Len(text)]

ExtractionIds == {1, 2}
ExtractionTexts == {"gpt 5.1", "failed hw 7"}
Extractions == {Extraction(tid, text) : tid \in ExtractionIds, text \in ExtractionTexts}

\* the entry of by_post['pdfs'] made from one extraction
PdfOf(ext) == [url |-> ext.url, text |-> ext.content, char_count |-> ext.char_count]

\* list(by_post.values()): one item per thread id, in the order the ids
\* first occur, holding the pdfs of the id in list order
ByPost(exts) ==
    LET ids == AppendAllNew(<< >>, [k \in DOMAIN exts |-> exts[k].thread_id])
    IN  [n \in DOMAIN ids |->
            [post_id |-> ids[n],
             post_title |-> exts[CHOOSE k \in DOMAIN exts :
                                    /\ exts[k].thread_id = ids[n]
                                    /\ \A j \in 1..(k - 1) : exts[j].thread_id # ids[n]].title,
             pdfs |-> Flat([k \in DOMAIN exts |->
                              IF exts[k].thread_id = ids[n]
                              THEN << PdfOf(exts[k]) >> ELSE << >>])]]

\* the two json.dump calls that end extract_fast.main; a file is held as the
\* JSON document in it, a list of objects with string keys whose values
\* are strings, integers and lists of such objects
SavedFiles(fs, exts) ==
    Put(Put(fs, AllExtractionsPath, exts), PdfExtractionsPath, ByPost(exts))

\* a join that forgets the separator
JoinNothing(texts) == IF Len(texts) = 0 THEN "" ELSE Flat(texts)

RECURSIVE JoinBlank(_)
\* "\n\n".join(texts)
JoinBlank(texts) ==
    IF Len(texts) = 0 THEN ""
    ELSE IF Len(texts) = 1 THEN texts[1]
    ELSE texts[1] \o "\n\n" \o JoinBlank(Tail(texts))

RECURSIVE LoadFlat(_, _)
\* the loop over all_data: repeated ids are concatenated
LoadFlat(map, all_data) ==
    IF Len(all_data) = 0 THEN map
    ELSE LET item == Head(all_data)
             post_id == item.thread_id
             text == IF "content" \in DOMAIN item THEN item.content ELSE ""
         IN  LoadFlat(IF post_id \in DOMAIN map
                      THEN Put(map, post_id, map[post_id] \o "\n\n" \o text)
                      ELSE Put(map, post_id, text),
                      Tail(all_data))

RECURSIVE LoadNested(_, _)
\* the loop over pdf_data: the texts of an item are joined and assigned
LoadNested(map, pdf_data) ==
    IF Len(pdf_data) = 0 THEN map
    ELSE LET item == Head(pdf_data)
         IN  LoadNested(Put(map, item.post_id,
                            JoinBlank([k \in DOMAIN item.pdfs |-> item.pdfs[k].text])),
                        Tail(pdf_data))

\* external_content_map as the top of analyze_posts.py builds it: the flat
\* file is preferred, the nested one is the fallback, no file gives {}
external_content_map(fs) ==
    IF AllExtractionsPath \in DOMAIN fs THEN LoadFlat(EmptyMap, fs[AllExtractionsPath])
    ELSE IF PdfExtractionsPath \in DOMAIN fs THEN LoadNested(EmptyMap, fs[PdfExtractionsPath])
    ELSE EmptyMap

Without(fs, path) == [p \in DOMAIN fs \ {path} |-> fs[p]]

\* extract_fast.main after the extraction loop
InitLoad ==
    /\ pc = "extracted"
    /\ extractions \in SeqsUpTo(Extractions, MaxExtractions)
    /\ files = EmptyMap
    /\ posts = << >>
    /\ pdf_content_map = EmptyMap
    /\ idx = 0
    /\ enriched_posts = << >>
    /\ model_stats = EmptyMap
    /\ hw_stats = EmptyMap
    /\ failure_mode_stats = EmptyMap
    /\ stats_keys = NoKeys
    /\ summary = NoValue
    /\ error = NoValue
    /\ threads = << >>
    /\ processed_threads = << >>
    /\ models = {}
    /\ homeworks = {}
    /\ failure_mode_counts = EmptyMap
    /\ PageIdle
    /\ PoolIdle
    /\ title = ""
    /\ content = ""
    /\ out = NoValue

loadRest == << posts, idx, enriched_posts, model_stats, hw_stats,
               failure_mode_stats, endVars, siteVars, pageVars, poolVars, fnVars >>

\* extract_fast.main, "Save results"
SaveResults ==
    /\ pc = "extracted"
    /\ files' = SavedFiles(files, extractions)
    /\ pc' = "saved"
    /\ UNCHANGED << extractions, pdf_content_map, loadRest >>

\* between the two scripts one of the files is removed (or was never
\* copied to the machine the analysis runs on)
RemoveFile ==
    /\ pc = "saved"
    /\ \E path \in DOMAIN files : files' = Without(files, path)
    /\ UNCHANGED << pc, extractions, pdf_content_map, loadRest >>

\* analyze_posts.py up to pdf_content_map = external_content_map
LoadExternalContent ==
    /\ pc = "saved"
    /\ pdf_content_map' = external_content_map(files)
    /\ pc' = "loaded"
    /\ UNCHANGED << extractions, files, loadRest >>

NextLoad == SaveResults \/ RemoveFile \/ LoadExternalContent

SpecLoad == InitLoad /\ [][NextLoad]_vars

\* the texts extracted for one post, in list order
TextsOf(exts, tid) ==
    Flat([k \in DOMAIN exts |->
            IF exts[k].thread_id = tid THEN << exts[k].content >> ELSE << >>])

RECURSIVE BlankLineJoined(_, _)
\* the texts from the n-th on, each preceded by a blank line
BlankLineJoined(texts, n) ==
    IF n > Len(texts) THEN ""
    ELSE "\n\n" \o texts[n] \o BlankLineJoined(texts, n + 1)

\* post id -> its texts with a blank line between them
SupplementaryText(exts) ==
    [tid \in {exts[k].thread_id : k \in DOMAIN exts} |->
        LET texts == TextsOf(exts, tid)
        IN  texts[1] \o BlankLineJoined(texts, 2)]

\* C24: whichever of the two files extract_fast wrote is loaded, the flat
\* one with repeated ids concatenated or the nested one with the pdf texts
\* of a post joined, the map built is the same: every post id that has
\* extractions is mapped to its texts in list order with a blank line
\* between them, and the two shapes normalise to the same map
C24_BothShapesNormalise ==
    /\ pc = "loaded" /\ DOMAIN files # {}
          => pdf_content_map = SupplementaryText(extractions)
    /\ pc = "saved" /\ DOMAIN files = {AllExtractionsPath, PdfExtractionsPath}
          => /\ LoadFlat(EmptyMap, files[AllExtractionsPath])
                   = SupplementaryText(extractions)
             /\ LoadNested(EmptyMap, files[PdfExtractionsPath])
                   = SupplementaryText(extractions)

\* the nested file alone was loaded, and it held a post with two texts
\* separated in the list by a text of another post
C24_Witness ==
    /\ pc = "loaded"
    /\ DOMAIN files = {PdfExtractionsPath}
    /\ Len(extractions) = 3
    /\ extractions[1].thread_id = 1
    /\ extractions[2].thread_id = 2
    /\ extractions[3].thread_id = 1
    /\ pdf_content_map[1] = "gpt 5.1\n\nfailed hw 7"
    /\ Len(files[PdfExtractionsPath]) = 2

---------------------------------------------------------------------------
(* The classification of list lines *)

\* w stands in t at i as a word of its own, between blanks or the ends
WordAt(t, i, w) ==
    /\ SubSeq(t, i, i + Len(w) - 1) = w
    /\ i = 1 \/ CharAt(t, i - 1) \in Whitespace
    /\ i + Len(w) - 1 = Len(t) \/ CharAt(t, i + Len(w)) \in Whitespace

SentimentWords == Range(StrengthWords) \cup Range(WeaknessWords)

\* w is a word of t and every classification word that occurs in t occurs
\* inside such a word
OnlySentimentWord(t, w) ==
    /\ \E i \in 1..(Len(t) - Len(w) + 1) : WordAt(t, i, w)
    /\ \A v \in SentimentWords :
         \A j \in 1..(Len(t) - Len(v) + 1) :
            SubSeq(t, j, j + Len(v) - 1) = v
               => \E i \in 1..(Len(t) - Len(w) + 1) :
                     /\ WordAt(t, i, w)
                     /\ i <= j
                     /\ j + Len(v) <= i + Len(w)

BulletObservation(type, text) ==
    [type |-> type, label |-> "Observation", text |-> Prefix(text, 200)]

\* the list lines the bullet loop takes, stripped
TakenLines(txt) ==
    Flat([r \in DOMAIN bullet_patterns |->
            LET taken == FindAllFirst(bullet_patterns[r], txt, txt, 5)
            IN  [k \in DOMAIN taken |-> strip(taken[k])]])

\* C25: a list line taken by the bullet loop whose only classification word
\* is a positive one gives a strength observation, one whose only
\* classification word is one of wrong, error, fail, issue, bug, incorrect
\* gives a weakness observation, and one without any gives nothing.
C25_BulletClassification ==
    ObsDone =>
      \E lines \in {TakenLines(content)} :
        \A n \in DOMAIN lines :
          \E text_lower \in {lower(lines[n])} :
            /\ \A k \in DOMAIN StrengthWords :
                  OnlySentimentWord(text_lower, StrengthWords[k])
                     => BulletObservation("strength", lines[n]) \in Range(out.observations)
            /\ \A k \in DOMAIN WeaknessWords :
                  OnlySentimentWord(text_lower, WeaknessWords[k])
                     => BulletObservation("weakness", lines[n]) \in Range(out.observations)
            /\ (\A v \in SentimentWords : ~Contains(text_lower, v))
                  => \A type \in {"strength", "weakness"} :
                        BulletObservation(type, lines[n]) \notin Range(out.observations)

---------------------------------------------------------------------------
(* The limits of the labelled families *)

\* the three labelled loops: the patterns, the type, the limit and the
\* least length
Families ==
    << [patterns |-> strength_patterns, type |-> "strength", limit |-> 3, least |-> 10],
       [patterns |-> weakness_patterns, type |-> "weakness", limit |-> 3, least |-> 10],
       [patterns |-> annotation_patterns, type |-> "annotation", limit |-> 5, least |-> 5] >>

\* every match of a pattern in the text, in text order
AllMatches(rule, txt) == FindAllFirst(FoldRule(rule), lower(txt), txt, Len(txt))

\* the candidates that carry a label, in the order they were appended
Labelled(obs, type, label) ==
    Flat([k \in DOMAIN obs |->
            IF obs[k].type = type /\ obs[k].label = label THEN << obs[k] >> ELSE << >>])

\* C26: a strength or weakness pattern contributes at most 3 candidates and
\* an annotation pattern at most 5, and the candidates of a pattern are the
\* ones of its first 3 (5) matches in text order that pass the length
\* filter: a later match never stands in for an earlier one that was too
\* short.
C26_PerPatternLimits ==
    ObsDone =>
      \A f \in DOMAIN Families :
        \A r \in DOMAIN Families[f].patterns :
          \E all \in {AllMatches(Families[f].patterns[r], content)} :
            \E mine \in {Labelled(out.observations, Families[f].type,
                                  Families[f].patterns[r].label)} :
               /\ Len(mine) <= Families[f].limit
               /\ mine = Kept(Prefix(all, Families[f].limit), Families[f].type,
                              Families[f].patterns[r].label, Families[f].least)

\* the note pattern has six matches, the first five too short and the sixth
\* long enough, and no candidate was made of it
C26_Witness ==
    /\ ObsDone
    /\ content \in ShortThenLong
    /\ Len(AllMatches(annotation_patterns[3], content)) = 6
    /\ Len(strip(AllMatches(annotation_patterns[3], content)[6])) > 5
    /\ out.observations = << >>

---------------------------------------------------------------------------
(* Case-insensitive failure keywords *)

\* the keywords of catalog entry i that match the text as it is written
\* when the engine ignores case
KeywordsMatching(i, c) ==
    {n \in DOMAIN FAILURE_PATTERNS[i].keywords :
        SearchIgnoreCase(FAILURE_PATTERNS[i].keywords[n], c)}

\* the keywords written with a capital letter
CapitalKeywords(i) ==
    {n \in DOMAIN FAILURE_PATTERNS[i].keywords :
        FoldPattern(FAILURE_PATTERNS[i].keywords[n]) # FAILURE_PATTERNS[i].keywords[n]}

\* C27: a mode is tagged if and only if one of its keyword patterns matches
\* the text as written under case-insensitive matching, the patterns
\* written with capitals included, and the upper-cased copy of a text gets
\* the modes of the text.
C27_CaseInsensitiveTagging ==
    FailureDone =>
        /\ \A i \in DOMAIN FAILURE_PATTERNS :
              (KeywordsMatching(i, content) # {})
                 <=> (\E k \in DOMAIN out : out[k] = FAILURE_PATTERNS[i].id)
        /\ extract_failure_modes(upper(content)) = out

\* a text with capitals that a pattern written with capitals matches when
\* case is ignored, though the pattern as written is not found in the
\* lowered text; the mode is tagged
C27_Witness ==
    /\ FailureDone
    /\ content # lower(content)
    /\ \E i \in DOMAIN FAILURE_PATTERNS :
          /\ CapitalKeywords(i) \cap KeywordsMatching(i, content) # {}
          /\ CapitalKeywords(i) \cap KeywordsFound(i, content) = {}
          /\ \E k \in DOMAIN out : out[k] = FAILURE_PATTERNS[i].id

---------------------------------------------------------------------------
(* The cross rollups of the three statistics *)

\* stats[key][field][label], 0 where the defaultdicts hold nothing
Cell(stats, key, field, label) ==
    IF key \in DOMAIN stats THEN Get(stats[key][field], label, 0) ELSE 0

\* every label that occurs as a key of a dict or of a breakdown in a bucket
LabelsIn(stats, fields) ==
    UNION {DOMAIN stats[k][f] : k \in DOMAIN stats, f \in fields}

ModelLabels ==
    DOMAIN model_stats \cup LabelsIn(hw_stats, {"models"})
    \cup LabelsIn(failure_mode_stats, {"by_model"})
HwLabels ==
    DOMAIN hw_stats \cup LabelsIn(model_stats, {"homeworks"})
    \cup LabelsIn(failure_mode_stats, {"by_homework"})
ModeLabels ==
    DOMAIN failure_mode_stats \cup LabelsIn(model_stats, {"failure_modes"})
    \cup LabelsIn(hw_stats, {"failure_modes"})

\* C28: after any number of posts folded, the homework breakdown of a model
\* and the model breakdown of a homework hold the same number, the number
\* of folded posts with that model and that homework; the failure-mode
\* breakdowns of the model and homework buckets agree with by_model and
\* by_homework of the failure-mode buckets; and the homework breakdown of a
\* model sums to the total of the model.
C28_CrossRollupSymmetry ==
    ~InSite =>
      /\ \A m \in ModelLabels, h \in HwLabels :
            /\ Cell(model_stats, m, "homeworks", h) = Cell(hw_stats, h, "models", m)
            /\ Cell(model_stats, m, "homeworks", h)
                  = Cardinality(FoldedWith("model", m) \cap FoldedWith("homework", h))
      /\ \A m \in ModelLabels, fm \in ModeLabels :
            Cell(model_stats, m, "failure_modes", fm)
               = Cell(failure_mode_stats, fm, "by_model", m)
      /\ \A h \in HwLabels, fm \in ModeLabels :
            Cell(hw_stats, h, "failure_modes", fm)
               = Cell(failure_mode_stats, fm, "by_homework", h)
      /\ \A m \in DOMAIN model_stats :
            SumValues(model_stats[m].homeworks, DOMAIN model_stats[m].homeworks)
               = model_stats[m].total

\* three posts folded: a model with two homeworks, a homework with two
\* models and a failure mode counted for a model
C28_Witness ==
    /\ pc = "stats_done"
    /\ Folded = 3
    /\ \E m \in DOMAIN model_stats : Cardinality(DOMAIN model_stats[m].homeworks) = 2
    /\ \E h \in DOMAIN hw_stats : Cardinality(DOMAIN hw_stats[h].models) = 2
    /\ \E m \in ModelLabels, fm \in ModeLabels :
          Cell(failure_mode_stats, fm, "by_model", m) >= 1

---------------------------------------------------------------------------
(* generate_site.main: the threads of the course are fetched page by page *)

\* page_size, 50 in the script, scaled down
PageSize == 2
\* the server returns at most this many full pages
MaxPages == 3

\* a thread as the API returns it, reduced to its id; 0 stands for an id
\* that is falsy (0, None, or no "id" key: t.get("id") is None)
PageItems == {[id |-> 1], [id |-> 2], [id |-> 0]}

\* data.get("threads", []) for the responses that are dicts
PageLists == SeqsUpTo(PageItems, PageSize)

\* [t for t in page_threads if isinstance(t, dict) and t.get("id") not in
\* seen_ids]: every thread of the page is compared with the ids of the
\* pages before
NewThreads(page_threads, seen) ==
    Flat([k \in DOMAIN page_threads |->
            IF page_threads[k].id \notin seen THEN << page_threads[k] >> ELSE << >>])

\* for thread in new_threads: if thread_id: seen_ids.add(thread_id)
SeenAfter(seen, new_threads) ==
    seen \cup {new_threads[k].id : k \in {j \in DOMAIN new_threads : new_threads[j].id # 0}}

\* the offset of the request the loop makes next
Offset == page * PageSize

InitPages ==
    /\ pc = "paging"
    /\ page = 0
    /\ seen_ids = {}
    /\ all_threads = << >>
    /\ threads = << >>
    /\ LoadIdle
    /\ PoolIdle
    /\ posts = << >>
    /\ pdf_content_map = EmptyMap
    /\ idx = 0
    /\ enriched_posts = << >>
    /\ model_stats = EmptyMap
    /\ hw_stats = EmptyMap
    /\ failure_mode_stats = EmptyMap
    /\ stats_keys = NoKeys
    /\ summary = NoValue
    /\ error = NoValue
    /\ processed_threads = << >>
    /\ models = {}
    /\ homeworks = {}
    /\ failure_mode_counts = EmptyMap
    /\ title = ""
    /\ content = ""
    /\ out = NoValue

pageRest == << posts, pdf_content_map, idx, enriched_posts, model_stats, hw_stats,
               failure_mode_stats, endVars, processed_threads, models, homeworks,
               failure_mode_counts, loadVars, poolVars, fnVars >>

\* the request fails (raise_for_status, a connection error, a body that is
\* not JSON): the except clause takes over
PageRaises ==
    /\ pc = "paging"
    /\ pc' = "fallback"
    /\ UNCHANGED << page, seen_ids, all_threads, threads, pageRest >>

\* the body is not a dict, or holds no threads: break, threads = all_threads
PageEmpty ==
    /\ pc = "paging"
    /\ threads' = all_threads
    /\ pc' = "paged"
    /\ UNCHANGED << page, seen_ids, all_threads, pageRest >>

\* a page with threads: the new ones are collected; a page shorter than
\* page_size ends the loop, a full one is followed by the next request
PageOfThreads ==
    /\ pc = "paging"
    /\ \E page_threads \in PageLists \ {<< >>} :
          LET new_threads == NewThreads(page_threads, seen_ids)
          IN  /\ Len(page_threads) = PageSize => page < MaxPages
              /\ seen_ids' = SeenAfter(seen_ids, new_threads)
              /\ all_threads' = all_threads \o new_threads
              /\ IF Len(page_threads) < PageSize
                 THEN /\ threads' = all_threads'
                      /\ pc' = "paged"
                      /\ page' = page
                 ELSE /\ page' = page + 1
                      /\ UNCHANGED << pc, threads >>
    /\ UNCHANGED pageRest

\* except: threads = ed.list_threads(course_id=COURSE_ID), or main returns
\* when that raises too
ListThreads ==
    /\ pc = "fallback"
    /\ \/ /\ \E listed \in PageLists : threads' = listed
          /\ pc' = "paged"
       \/ /\ pc' = "returned"
          /\ UNCHANGED threads
    /\ UNCHANGED << page, seen_ids, all_threads, pageRest >>

NextPages == PageRaises \/ PageEmpty \/ PageOfThreads \/ ListThreads

SpecPages == InitPages /\ [][NextPages]_vars

\* C29: at every step of the loop the accumulated list holds no two
\* threads with the same id.
C29_NoTwoThreadsWithOneId ==
    \A j, k \in DOMAIN all_threads :
       all_threads[j].id = all_threads[k].id => j = k

---------------------------------------------------------------------------
(* extract_fast.py: the download tasks and the pool that runs them *)

max_workers == 8

PDF_DIR == "output/pdfs"

\* url.split('/')[-1]
LastSegment(url) ==
    LET slashes == {i \in 1..Len(url) : CharAt(url, i) = "/"}
    IN  IF slashes = {} THEN url ELSE SubSeq(url, SetMax(slashes) + 1, Len(url))

\* re.search(r'/d/([a-zA-Z0-9_-]+)', url): the id after the first "/d/", or
\* no match; the urls of the model hold nothing after the id
DriveMatches(url) == {i \in 1..(Len(url) - 3) : SubSeq(url, i, i + 2) = "/d/"}
DriveId(url) == SubSeq(url, SetMin(DriveMatches(url)) + 3, Len(url))

\* os.path.join(PDF_DIR, f"{tid}_{fhash}.pdf")
TargetPath(tid, fhash) == PDF_DIR \o "/" \o ToString(tid) \o "_" \o fhash \o ".pdf"

Task(url, tid, fhash) == [url |-> url, tid |-> tid, filepath |-> TargetPath(tid, Prefix(fhash, 15))]

RECURSIVE TasksOfUrls(_, _, _, _)
\* one of the two inner loops: a task for every url not seen before
TasksOfUrls(acc, urls, tid, drive) ==
    IF Len(urls) = 0 THEN acc
    ELSE LET url == Head(urls)
             fhash == IF drive
                      THEN (IF DriveMatches(url) # {} THEN DriveId(url) ELSE "unk")
                      ELSE LastSegment(url)
         IN  TasksOfUrls(IF url \in acc.seen THEN acc
                         ELSE [seen |-> acc.seen \cup {url},
                               download_tasks |-> Append(acc.download_tasks,
                                                         Task(url, tid, fhash))],
                         Tail(urls), tid, drive)

RECURSIVE TasksOfPosts(_, _)
\* for post in posts: the Ed-hosted files, then the Google Drive files
TasksOfPosts(acc, ps) ==
    IF Len(ps) = 0 THEN acc
    ELSE TasksOfPosts(
            TasksOfUrls(TasksOfUrls(acc, Head(ps).file_urls, Head(ps).id, FALSE),
                        Head(ps).drive_urls, Head(ps).id, TRUE),
            Tail(ps))

DownloadTasks(ps) ==
    TasksOfPosts([seen |-> {}, download_tasks |-> << >>], ps).download_tasks

\* download_file's results
NoResult == [filepath |-> NoValue, error |-> NoValue, was_cached |-> FALSE]
Cached(path) == [filepath |-> path, error |-> NoValue, was_cached |-> TRUE]
Written(path) == [filepath |-> path, error |-> NoValue, was_cached |-> FALSE]
Failed(why) == [filepath |-> NoValue, error |-> why, was_cached |-> FALSE]

\* what requests.get can end with: a PDF, another document, a status that
\* is not 200, an exception
Fetches == {"pdf", "Not PDF", "HTTP 404", "HTTPSConnectionPool(host='stati"}

\* the posts of threads_full_raw.json, each with the urls the two findall
\* calls return for it
NotesV1 == "https://ed.test/files/annotated_notes_v1.pdf"
NotesV2 == "https://ed.test/files/annotated_notes_v2.pdf"
Sheet == "https://ed.test/files/hw3.pdf"
DriveFile == "https://drive.google.com/file/d/1AbC_d-9"
DriveFolder == "https://drive.google.com/drive/folders/xyz"

DownloadPosts ==
    { << >>,
      << [id |-> 1, file_urls |-> << Sheet >>, drive_urls |-> << DriveFile >>] >>,
      << [id |-> 1, file_urls |-> << NotesV1, NotesV2 >>, drive_urls |-> << >>] >>,
      << [id |-> 1, file_urls |-> << Sheet, Sheet >>, drive_urls |-> << >>],
         [id |-> 2, file_urls |-> << Sheet, NotesV1 >>, drive_urls |-> << DriveFile >>] >>,
      << [id |-> 1, file_urls |-> << DriveFolder >>, drive_urls |-> << >>],
         [id |-> 2, file_urls |-> << NotesV1, NotesV2 >>, drive_urls |-> << >>] >> }

\* output/pdfs before the run: empty, or with files of an earlier run
FilesAtStart ==
    { EmptyMap,
      [p \in {TargetPath(1, "hw3")} |-> Sheet],
      [p \in {TargetPath(1, "hw3"), TargetPath(1, "1AbC_d-9")} |->
          IF p = TargetPath(1, "hw3") THEN Sheet ELSE DriveFile] }

InitDownload ==
    /\ pc = "download"
    /\ posts \in DownloadPosts
    /\ files \in FilesAtStart
    /\ extractions = << >>
    /\ PageIdle
    /\ PoolIdle
    /\ pdf_content_map = EmptyMap
    /\ idx = 0
    /\ enriched_posts = << >>
    /\ model_stats = EmptyMap
    /\ hw_stats = EmptyMap
    /\ failure_mode_stats = EmptyMap
    /\ stats_keys = NoKeys
    /\ summary = NoValue
    /\ error = NoValue
    /\ threads = << >>
    /\ processed_threads = << >>
    /\ models = {}
    /\ homeworks = {}
    /\ failure_mode_counts = EmptyMap
    /\ title = ""
    /\ content = ""
    /\ out = NoValue

poolRest == << posts, pdf_content_map, idx, enriched_posts, model_stats, hw_stats,
               failure_mode_stats, endVars, siteVars, extractions, pageVars, fnVars >>

\* "Extract file URLs"
BuildTasks ==
    /\ pc = "download"
    /\ tasks' = DownloadTasks(posts)
    /\ worker' = [k \in DOMAIN tasks' |-> [at |-> "queued", result |-> NoResult]]
    /\ pc' = "built"
    /\ UNCHANGED << files, counts, poolRest >>

\* "Check how many already exist": the pool is skipped when every file is
\* there, else every task is submitted
CountExisting ==
    /\ pc = "built"
    /\ LET existing == Cardinality({k \in DOMAIN tasks : tasks[k].filepath \in DOMAIN files})
           to_download == Len(tasks) - existing
       IN  /\ counts' = [ZeroCounts EXCEPT !.existing = existing]
           /\ pc' = IF to_download = 0 /\ existing > 0 THEN "pool_done" ELSE "pool"
    /\ UNCHANGED << tasks, worker, files, poolRest >>

Running == {k \in DOMAIN worker : worker[k].at \in {"fetching", "writing"}}

\* download_file, up to the request: the file is there, or the url is a
\* Drive url without an id, or the request is made
Check(k) ==
    /\ pc = "pool"
    /\ worker[k].at = "queued"
    /\ Cardinality(Running) < max_workers
    /\ worker' = [worker EXCEPT ![k] =
          IF tasks[k].filepath \in DOMAIN files
          THEN [at |-> "returned", result |-> Cached(tasks[k].filepath)]
          ELSE IF Contains(tasks[k].url, "drive.google.com") /\ DriveMatches(tasks[k].url) = {}
          THEN [at |-> "returned", result |-> Failed("Bad URL")]
          ELSE [at |-> "fetching", result |-> NoResult]]
    /\ UNCHANGED << pc, tasks, files, counts, poolRest >>

\* requests.get and the two tests of the response
Fetch(k) ==
    /\ pc = "pool"
    /\ worker[k].at = "fetching"
    /\ \E fetched \in Fetches :
          worker' = [worker EXCEPT ![k] =
              IF fetched = "pdf" THEN [at |-> "writing", result |-> NoResult]
              ELSE [at |-> "returned", result |-> Failed(fetched)]]
    /\ UNCHANGED << pc, tasks, files, counts, poolRest >>

\* open(filepath, 'wb') and f.write(response.content)
Write(k) ==
    /\ pc = "pool"
    /\ worker[k].at = "writing"
    /\ files' = Put(files, tasks[k].filepath, tasks[k].url)
    /\ worker' = [worker EXCEPT ![k] =
                     [at |-> "returned", result |-> Written(tasks[k].filepath)]]
    /\ UNCHANGED << pc, tasks, counts, poolRest >>

\* one iteration of  for i, future in enumerate(as_completed(futures))
Collect(k) ==
    /\ pc = "pool"
    /\ worker[k].at = "returned"
    /\ LET r == worker[k].result
       IN  counts' =
              IF r.was_cached THEN counts
              ELSE IF r.filepath # NoValue THEN [counts EXCEPT !.downloaded = @ + 1]
              ELSE IF r.error = "Not PDF" THEN [counts EXCEPT !.skipped = @ + 1]
              ELSE [counts EXCEPT !.failed = @ + 1]
    /\ worker' = [worker EXCEPT ![k].at = "counted"]
    /\ UNCHANGED << pc, tasks, files, poolRest >>

\* the with block is left when every future is done and seen
PoolDone ==
    /\ pc = "pool"
    /\ \A k \in DOMAIN worker : worker[k].at = "counted"
    /\ pc' = "pool_done"
    /\ UNCHANGED << tasks, worker, files, counts, poolRest >>

\* the steps of the pool's threads and of the loop that collects them
Checks == \E k \in DOMAIN tasks : Check(k)
Fetching == \E k \in DOMAIN tasks : Fetch(k)
Writes == \E k \in DOMAIN tasks : Write(k)
Collects == \E k \in DOMAIN tasks : Collect(k)

NextDownload ==
    BuildTasks \/ CountExisting \/ Checks \/ Fetching \/ Writes \/ Collects \/ PoolDone

SpecDownload == InitDownload /\ [][NextDownload]_vars

\* the workers that have found their file missing and have not written it
BetweenCheckAndWrite == {k \in DOMAIN worker : worker[k].at \in {"fetching", "writing"}}

\* C30: the tasks have pairwise distinct urls and pairwise distinct target
\* paths, no two workers are between the check and the write of one file,
\* and when the pool is done every task has been counted once: as existing,
\* downloaded, skipped or failed.
C30_DistinctTasksCountedOnce ==
    /\ \A j, k \in DOMAIN tasks :
          j # k => /\ tasks[j].url # tasks[k].url
                   /\ tasks[j].filepath # tasks[k].filepath
    /\ \A j, k \in BetweenCheckAndWrite :
          j # k => tasks[j].filepath # tasks[k].filepath
    /\ pc = "pool_done"
          => counts.existing + counts.downloaded + counts.skipped + counts.failed
                = Len(tasks)

=============================================================================
